---- MODULE Spec2Model ----
(***************************************************************************)
(* Message ingestion and chain-sync core of the aleph.im Core Channel Node *)
(* (py-aleph): the Chain Data Service (chains/chaindata.py), the           *)
(* Pending-Tx Processor (jobs/process_pending_txs.py), the pending-message *)
(* job (jobs/process_pending_messages.py) and the relational schema        *)
(* (db/models/messages.py).                                                *)
(*                                                                         *)
(* MessagePublisher.add_pending_message (aleph.handlers.message_handler)   *)
(* and incoming (aleph.chains.common) are called by this code but their    *)
(* source is not part of the checked files: they are modelled from         *)
(* sections 4.3 and 4.4 of the specification and are marked so below.      *)
(***************************************************************************)
EXTENDS Integers, Sequences, FiniteSets, TLC

(***************************************************************************)
(* Bounds of the model.                                                    *)
(***************************************************************************)
\* The clock (utc_now) runs from 0 to MaxTime.
MaxTime == 1
\* max_retries of the retry controller (specification 4.4 step 8).
MaxRetries == 1
\* retry_messages_task calls process_pending_messages at most MaxRuns times.
MaxRuns == 2
\* get_chaindata is applied to lists of at most MaxMsgs messages.
MaxMsgs == 2
\* The size of the duplicate-suppression window, scaled down from the 10 000
\* that section 5 of the specification gives as the default.
SeenIdsWindow == 1
\* The number of pending entries above which process_pending_messages cleans
\* the collection, scaled down from the 100 000 of the code.
HighWaterMark == 2

(***************************************************************************)
(* Values.                                                                 *)
(***************************************************************************)
\* Python's None.
None == "None"
\* source.get("height", None): the height of a message that came from no tx.
NoHeight == -1

\* aleph.types.chain_sync.ChainSyncProtocol (values as in specification 6).
ON_CHAIN_SYNC == "aleph-sync"
OFF_CHAIN_SYNC == "aleph-offchain-sync"
SMART_CONTRACT == "smart-contract"

\* The field set of the wire form of a message.
INCOMING_MESSAGE_AUTHORIZED_FIELDS ==
    {"item_hash", "item_content", "item_type", "chain", "channel", "sender",
     "type", "time", "signature"}

(***************************************************************************)
(* The messages of the model.  m1 is a post, m2 an instance declaration    *)
(* and f1 a forget message whose hashes list is [m1].  b1 and x1 are posts *)
(* a dishonest peer sends: the signature of b1 is not one of its sender,   *)
(* and the item_hash of x1 is not the hash of its item_content.  f2 is the  *)
(* forget message whose hashes list is [m2].                               *)
(***************************************************************************)
ItemHashes == {"m1", "m2", "f1"}
DishonestHashes == {"b1", "x1"}

MsgType == [m1 |-> "post", m2 |-> "instance", f1 |-> "forget",
            b1 |-> "post", x1 |-> "post", f2 |-> "forget"]
MsgTime == [m1 |-> 10, m2 |-> 20, f1 |-> 30, b1 |-> 40, x1 |-> 50, f2 |-> 21]
MsgSender == [m1 |-> "alice", m2 |-> "alice", f1 |-> "alice",
              b1 |-> "alice", x1 |-> "alice", f2 |-> "alice"]
MsgSignature == [m1 |-> "sig", m2 |-> "sig", f1 |-> "sig",
                 b1 |-> "forged", x1 |-> "sig", f2 |-> "sig"]
MsgContent == [m1 |-> "post 1", m2 |-> "instance 2", f1 |-> "forget m1",
               b1 |-> "post b", x1 |-> "post x", f2 |-> "forget m2"]
\* content.hashes of a forget message.
ForgetHashes == [m1 |-> {}, m2 |-> {}, f1 |-> {"m1"}, b1 |-> {}, x1 |-> {},
                 f2 |-> {"m2"}]

\* The content of the instance message m2: the parent of its rootfs, taken at
\* its latest version, and five volumes: one immutable (it has a ref), one
\* ephemeral and three persistent.
InstanceContent ==
    [address |-> "alice",
     rootfs |-> [parent |-> [ref |-> "549e", use_latest |-> TRUE],
                 persistence |-> "host", name |-> "test-rootfs"],
     volumes |-> <<[kind |-> "immutable", ref |-> "5f31", use_latest |-> FALSE,
                    name |-> "/opt/venv"],
                   [kind |-> "ephemeral", ref |-> None, use_latest |-> FALSE,
                    name |-> "/var/cache"],
                   [kind |-> "persistent", ref |-> None, use_latest |-> FALSE,
                    name |-> "sqlite-data"],
                   [kind |-> "persistent", ref |-> None, use_latest |-> FALSE,
                    name |-> "statistics"],
                   [kind |-> "persistent", ref |-> None, use_latest |-> FALSE,
                    name |-> "raw-data"]>>]

\* InstanceContent.parse_raw(message.item_content)
ParseContent(item_content) ==
    IF item_content = "instance 2" THEN InstanceContent
    ELSE [address |-> "alice",
          rootfs |-> [parent |-> [ref |-> None, use_latest |-> FALSE],
                      persistence |-> "host", name |-> "none"],
          volumes |-> <<>>]

\* get_volume_refs: the immutable volumes and the parent of the rootfs.
get_volume_refs(content) ==
    {[ref |-> content.volumes[i].ref, use_latest |-> content.volumes[i].use_latest] :
        i \in {j \in 1..Len(content.volumes) : content.volumes[j].kind = "immutable"}}
    \cup (IF content.rootfs.parent.ref # None THEN {content.rootfs.parent} ELSE {})

\* file_hash = volume.ref[::-1]
Reversed(ref) ==
    IF ref = "549e" THEN "e945" ELSE IF ref = "5f31" THEN "13f5" ELSE ref

\* get_sha256.  The item hashes m1, m2, f1, b1 and f2 name the digests of the
\* item_content of these messages; the digest of any other text is written
\* "sha256:<text>".
HashedContents == {"m1", "m2", "f1", "b1", "f2"}
get_sha256(item_content) ==
    IF \E h \in HashedContents : MsgContent[h] = item_content
    THEN CHOOSE h \in HashedContents : MsgContent[h] = item_content
    ELSE "sha256:" \o item_content

\* A datetime, as the database stores it, and its epoch (datetime.timestamp()).
Datetime(epoch) == <<"datetime", epoch>>
timestamp(d) == d[2]

\* A row of `messages` as MessageDb.to_dict() returns it: every column.
MessageDb(h) ==
    [item_hash |-> h, type |-> MsgType[h], chain |-> "ETH",
     sender |-> MsgSender[h], signature |-> MsgSignature[h],
     item_type |-> "inline", item_content |-> MsgContent[h],
     content |-> "parsed", time |-> Datetime(MsgTime[h]),
     channel |-> "TEST", size |-> 7]

\* message_to_dict: the authorized fields, the time converted to epoch.
Restrict(f, S) == [k \in (DOMAIN f) \cap S |-> f[k]]
message_to_dict(message) ==
    LET message_dict == Restrict(message, INCOMING_MESSAGE_AUTHORIZED_FIELDS)
    IN [message_dict EXCEPT !["time"] = timestamp(message_dict["time"])]

\* The wire form of message h.
WireDict(h) == message_to_dict(MessageDb(h))

(***************************************************************************)
(* JSON.  A JSON object is a record, a JSON list a sequence; json_dumps    *)
(* gives the text Python's json.dumps gives (separators ", " and ": ",     *)
(* keys in insertion order), so that len(json.dumps(x)) is the length of   *)
(* the real text.                                                          *)
(***************************************************************************)
Quote(s) == "\"" \o s \o "\""

\* The text of one message dict (the authorized columns, in column order).
json_dumps_message(d) ==
    "{" \o Quote("item_hash") \o ": " \o Quote(d["item_hash"])
        \o ", " \o Quote("type") \o ": " \o Quote(d["type"])
        \o ", " \o Quote("chain") \o ": " \o Quote(d["chain"])
        \o ", " \o Quote("sender") \o ": " \o Quote(d["sender"])
        \o ", " \o Quote("signature") \o ": " \o Quote(d["signature"])
        \o ", " \o Quote("item_type") \o ": " \o Quote(d["item_type"])
        \o ", " \o Quote("item_content") \o ": " \o Quote(d["item_content"])
        \o ", " \o Quote("time") \o ": " \o ToString(d["time"]) \o ".0"
        \o ", " \o Quote("channel") \o ": " \o Quote(d["channel"])
        \o "}"

RECURSIVE json_dumps_list(_)
json_dumps_list(l) ==
    IF l = <<>> THEN ""
    ELSE json_dumps_message(Head(l))
         \o (IF Tail(l) = <<>> THEN "" ELSE ", ")
         \o json_dumps_list(Tail(l))

\* The text of a sync envelope: content is {"messages": [...]} for the
\* on-chain protocol and a hash string for the off-chain protocol.
json_dumps(chaindata) ==
    "{" \o Quote("protocol") \o ": " \o Quote(chaindata.protocol)
        \o ", " \o Quote("version") \o ": " \o ToString(chaindata.version)
        \o ", " \o Quote("content") \o ": "
        \o (IF chaindata.protocol = OFF_CHAIN_SYNC
            THEN Quote(chaindata.content)
            ELSE "{" \o Quote("messages") \o ": ["
                     \o json_dumps_list(chaindata.content.messages) \o "]}")
        \o "}"

\* storage_service.add_json: the hash of the stored text (content addressing).
HashOf(text) == "Qm:" \o text

(***************************************************************************)
(* ChainDataService.get_chaindata                                          *)
(***************************************************************************)
SeqMap(Op(_), s) == [i \in 1..Len(s) |-> Op(s[i])]

OnChainEnvelope(message_dicts) ==
    [protocol |-> ON_CHAIN_SYNC, version |-> 1,
     content |-> [messages |-> message_dicts]]

OffChainEnvelope(ipfs_id) ==
    [protocol |-> OFF_CHAIN_SYNC, version |-> 1, content |-> ipfs_id]

\* len(content) > bulk_threshold
OverThresholdGe(content, bulk_threshold) == Len(content) >= bulk_threshold
OverThreshold(content, bulk_threshold) == Len(content) > bulk_threshold

\* Returns the envelope put on chain (its text is json_dumps of it), whether
\* storage_service.add_json was called, and the storage after the call.
get_chaindata(messages, bulk_threshold, store) ==
    LET message_dicts == SeqMap(message_to_dict, messages)
        chaindata == OnChainEnvelope(message_dicts)
        content == json_dumps(chaindata)
        ipfs_id == HashOf(content)
    IN IF OverThreshold(content, bulk_threshold)
       THEN [envelope |-> OffChainEnvelope(ipfs_id), added |-> TRUE,
             storage |-> (ipfs_id :> chaindata) @@ store]
       ELSE [envelope |-> chaindata, added |-> FALSE, storage |-> store]

(***************************************************************************)
(* The transactions of the model (rows of chain_txs) and the blobs the     *)
(* storage service resolves.                                               *)
(***************************************************************************)
\* The bundle [m1, m2] in wire form.
Bundle == <<WireDict("m1"), WireDict("m2")>>

\* The blob get_chaindata uploads for the bundle: the whole envelope.
EnvelopeBlob == OnChainEnvelope(Bundle)
EnvelopeHash == HashOf(json_dumps(EnvelopeBlob))

\* A blob holding the messages at its top level.
BareBlob == [messages |-> Bundle]
BareHash == "Qm:bare"

\* A candidate that is not a well-formed message: its type is not a message
\* type.
MalformedDict ==
    [item_hash |-> "w1", sender |-> "alice", type |-> "bogus", chain |-> "ETH",
     item_type |-> "inline", time |-> 70]

\* A blob whose first candidate is malformed and whose second is m1.
MixedBlob == [messages |-> <<MalformedDict, WireDict("m1")>>]
MixedHash == "Qm:mixed"

InitialStorage ==
    (EnvelopeHash :> EnvelopeBlob) @@ (BareHash :> BareBlob)
        @@ (MixedHash :> MixedBlob)

TxHashes == {"t1", "t2", "t3", "t4"}

\* The payload of a smart-contract event (MessageEventPayload).
Payload(msgtype) ==
    [timestamp |-> 50, addr |-> "tz1", msgtype |-> msgtype, msgcontent |-> "QmFile"]

\* ChainTxDb rows: t1 carries the bundle inline; t2 and t4 both point to the
\* same stored blob; t3 points to the envelope get_chaindata uploads; t5 is
\* an event of a smart contract; t6 points to the blob with a malformed
\* candidate.
ChainTx ==
    [t1 |-> [hash |-> "t1", chain |-> "ETH", height |-> 1,
             datetime |-> Datetime(101),
             protocol |-> ON_CHAIN_SYNC, protocol_version |-> 1,
             content |-> [messages |-> Bundle]],
     t2 |-> [hash |-> "t2", chain |-> "ETH", height |-> 2,
             datetime |-> Datetime(102),
             protocol |-> OFF_CHAIN_SYNC, protocol_version |-> 1,
             content |-> BareHash],
     t3 |-> [hash |-> "t3", chain |-> "ETH", height |-> 3,
             datetime |-> Datetime(103),
             protocol |-> OFF_CHAIN_SYNC, protocol_version |-> 1,
             content |-> EnvelopeHash],
     t4 |-> [hash |-> "t4", chain |-> "ETH", height |-> 4,
             datetime |-> Datetime(104),
             protocol |-> OFF_CHAIN_SYNC, protocol_version |-> 1,
             content |-> BareHash],
     t5 |-> [hash |-> "t5", chain |-> "TEZOS", height |-> 5,
             datetime |-> Datetime(105),
             protocol |-> SMART_CONTRACT, protocol_version |-> 1,
             content |-> Payload("STORE_IPFS")],
     t6 |-> [hash |-> "t6", chain |-> "ETH", height |-> 6,
             datetime |-> Datetime(106),
             protocol |-> OFF_CHAIN_SYNC, protocol_version |-> 1,
             content |-> MixedHash]]

\* config.ipfs.enabled
IpfsEnabled == TRUE

(***************************************************************************)
(* ChainDataService.get_tx_messages.  A result is                          *)
(*   [status, messages, seen_ids, fetched, pinned]                         *)
(* status "ok" is a normal return; any other status is the exception that  *)
(* leaves the function.  seen_ids is the caller's set after the call.      *)
(***************************************************************************)
Raise(exc, seen, fetched) ==
    [status |-> exc, messages |-> <<>>, seen_ids |-> seen,
     fetched |-> fetched, pinned |-> FALSE]

Return(messages, seen, fetched, pinned) ==
    [status |-> "ok", messages |-> messages, seen_ids |-> seen,
     fetched |-> fetched, pinned |-> pinned]

\* isinstance(value, list).  A JSON list is a sequence, whose domain is 1..n;
\* a JSON object is a record, whose domain is a set of keys.  The domains are
\* compared through their text, integers and strings being incomparable.
IsList(value) ==
    ToString(DOMAIN value) \in {ToString(1..n) : n \in 0..(MaxMsgs + 1)}

\* _get_sync_messages: tx_content["messages"]
HasMessages(tx_content) == "messages" \in DOMAIN tx_content

\* _get_tx_messages_on_chain_protocol
get_tx_messages_on_chain_protocol(tx, seen) ==
    IF ~HasMessages(tx.content)
    THEN Raise("KeyError", seen, FALSE)
    ELSE IF ~IsList(tx.content["messages"])
         THEN Raise("InvalidContent", seen, FALSE)
         ELSE Return(tx.content["messages"], seen, FALSE, FALSE)

\* The set the worker keeps after an off-chain hash was looked at.
AddSeen(seen, file_hash) == seen \cup {file_hash}

\* `if seen_ids is not None: if file_hash in seen_ids: return []`
AlreadySeenNever(seen, file_hash) == FALSE
AlreadySeen(seen, file_hash) == file_hash \in seen

\* _get_tx_messages_off_chain_protocol.  `avail` is what the storage
\* service answers for this fetch: "ok" or "unavailable".
get_tx_messages_off_chain_protocol(tx, seen, store, avail) ==
    LET file_hash == tx.content
        seen2 == AddSeen(seen, file_hash)
    IN IF AlreadySeen(seen, file_hash)
       THEN Return(<<>>, seen, FALSE, FALSE)
       ELSE IF avail # "ok" \/ file_hash \notin DOMAIN store
            THEN Raise("ContentCurrentlyUnavailable", seen2, TRUE)
            ELSE IF ~HasMessages(store[file_hash])
                 THEN Raise("KeyError", seen2, TRUE)
                 ELSE Return(store[file_hash]["messages"], seen2, TRUE, IpfsEnabled)

\* MessageEventPayload.parse_obj: the four fields must be present.
PayloadFields == {"timestamp", "addr", "msgtype", "msgcontent"}

\* StoreContent(...).json()
StoreContentJson(payload) ==
    "{" \o Quote("address") \o ": " \o Quote(payload["addr"])
        \o ", " \o Quote("time") \o ": " \o ToString(payload["timestamp"]) \o ".0"
        \o ", " \o Quote("item_type") \o ": " \o Quote("ipfs")
        \o ", " \o Quote("item_hash") \o ": " \o Quote(payload["msgcontent"])
        \o "}"

\* _get_tx_messages_smart_contract_protocol
get_tx_messages_smart_contract_protocol(tx, seen) ==
    IF ~(PayloadFields \subseteq DOMAIN tx.content)
    THEN Raise("InvalidContent", seen, FALSE)
    ELSE IF tx.content["msgtype"] # "STORE_IPFS"
         THEN Raise("ValueError", seen, FALSE)
         ELSE LET item_content == StoreContentJson(tx.content)
              IN Return(<<[item_hash |-> get_sha256(item_content),
                           sender |-> tx.content["addr"],
                           chain |-> "TEZOS",
                           signature |-> None,
                           type |-> "store",
                           item_content |-> item_content,
                           item_type |-> "inline",
                           time |-> timestamp(tx.datetime)]>>, seen, FALSE, FALSE)

\* The dispatch on (tx.protocol, tx.protocol_version); any other pair is
\* `case _: raise InvalidContent`.
get_tx_messages_any_version(tx, seen, store, avail) ==
    IF tx.protocol = ON_CHAIN_SYNC
    THEN get_tx_messages_on_chain_protocol(tx, seen)
    ELSE IF tx.protocol = OFF_CHAIN_SYNC
         THEN get_tx_messages_off_chain_protocol(tx, seen, store, avail)
         ELSE IF tx.protocol = SMART_CONTRACT
              THEN get_tx_messages_smart_contract_protocol(tx, seen)
              ELSE Raise("InvalidContent", seen, FALSE)

get_tx_messages(tx, seen, store, avail) ==
    IF tx.protocol = ON_CHAIN_SYNC /\ tx.protocol_version = 1
    THEN get_tx_messages_on_chain_protocol(tx, seen)
    ELSE IF tx.protocol = OFF_CHAIN_SYNC /\ tx.protocol_version = 1
         THEN get_tx_messages_off_chain_protocol(tx, seen, store, avail)
         ELSE IF tx.protocol = SMART_CONTRACT /\ tx.protocol_version = 1
              THEN get_tx_messages_smart_contract_protocol(tx, seen)
              ELSE Raise("InvalidContent", seen, FALSE)

(***************************************************************************)
(* The database.  One variable per table; a row is a record.               *)
(***************************************************************************)
VARIABLES
    chain_txs,              \* hashes of the ChainTxDb rows
    pending_txs,            \* hashes of the PendingTxDb rows
    pending_messages,       \* PendingMessageDb rows
    message_status,         \* MessageStatusDb rows
    messages,               \* item_hash of the MessageDb rows
    rejected_messages,      \* RejectedMessageDb rows
    forgotten_messages,     \* ForgottenMessageDb rows
    message_confirmations,  \* <<item_hash, tx_hash>> rows
    stored_files,           \* hashes of the StoredFileDb rows
    file_pins,              \* <<file_hash, tx_hash>> tx file pins
    file_refs,              \* message file pins and file tags
    vms                     \* the instance rows and the vm_version rows

\* The tables the publisher and the message processor write, as one value.
DB ==
    [pending_messages |-> pending_messages, message_status |-> message_status,
     messages |-> messages, rejected_messages |-> rejected_messages,
     forgotten_messages |-> forgotten_messages,
     message_confirmations |-> message_confirmations, chain_txs |-> chain_txs,
     stored_files |-> stored_files, file_refs |-> file_refs, vms |-> vms]

SetDB(db) ==
    /\ pending_messages' = db.pending_messages
    /\ message_status' = db.message_status
    /\ messages' = db.messages
    /\ rejected_messages' = db.rejected_messages
    /\ forgotten_messages' = db.forgotten_messages
    /\ message_confirmations' = db.message_confirmations
    /\ file_refs' = db.file_refs
    /\ vms' = db.vms

\* get_message_status: the status of item_hash, None when it has no row.
StatusRows(db, item_hash) ==
    {r \in db.message_status : r.item_hash = item_hash}
get_message_status(db, item_hash) ==
    IF StatusRows(db, item_hash) = {} THEN None
    ELSE (CHOOSE r \in StatusRows(db, item_hash) : TRUE).status

\* message_status.item_hash is the primary key: writing a status replaces the
\* row of that item_hash.
SetStatusInsert(db, item_hash, status, reception_time) ==
    [db EXCEPT !.message_status =
        @ \cup {[item_hash |-> item_hash, status |-> status,
                 reception_time |-> reception_time]}]

SetStatus(db, item_hash, status, reception_time) ==
    [db EXCEPT !.message_status =
        {r \in @ : r.item_hash # item_hash}
        \cup {[item_hash |-> item_hash, status |-> status,
               reception_time |-> reception_time]}]

\* The status row keeps its reception_time through a transition.
Transition(db, item_hash, status) ==
    SetStatus(db, item_hash, status,
              (CHOOSE r \in StatusRows(db, item_hash) : TRUE).reception_time)

\* message_confirmations: item_hash references messages.item_hash, tx_hash
\* references chain_txs.hash, and (item_hash, tx_hash) is unique.  An insert
\* that has no messages row or no chain_txs row to reference is refused.
CanConfirm(db, item_hash, tx_hash) ==
    /\ tx_hash # None
    /\ item_hash \in db.messages
    /\ tx_hash \in db.chain_txs

\* Insert-if-absent of a confirmation.
EnsureConfirmation(db, item_hash, tx_hash) ==
    IF CanConfirm(db, item_hash, tx_hash)
    THEN [db EXCEPT !.message_confirmations = @ \cup {<<item_hash, tx_hash>>}]
    ELSE db

(***************************************************************************)
(* The logical key of a pending message.                                   *)
(***************************************************************************)
\* The chain and the height of the tx a pending message came from.
SourceChain(tx_hash) == IF tx_hash = None THEN None ELSE ChainTx[tx_hash].chain
SourceHeight(tx_hash) == IF tx_hash = None THEN NoHeight ELSE ChainTx[tx_hash].height

\* get_pending_message_id
get_pending_message_id(pending) ==
    <<pending.item_hash, pending.sender,
      SourceChain(pending.tx_hash), SourceHeight(pending.tx_hash)>>

(***************************************************************************)
(* MessagePublisher.add_pending_message, from section 4.3 of the           *)
(* specification.  The result is [db, ret]: the tables after the call and  *)
(* the row returned (None for a rejected candidate).                       *)
(***************************************************************************)
MessageTypes == {"aggregate", "post", "store", "program", "instance", "forget"}
ItemTypes == {"inline", "storage", "ipfs"}
Chains == {"ETH", "TEZOS", "NULS2", "SOL"}

\* Step 2: well-formedness of a candidate.
WellFormed(message_dict) ==
    /\ {"item_hash", "sender", "type", "chain", "item_type", "time"}
           \subseteq DOMAIN message_dict
    /\ message_dict["type"] \in MessageTypes
    /\ message_dict["chain"] \in Chains
    /\ message_dict["item_type"] \in ItemTypes

\* Step 2, failure: the rejection is recorded with INVALID_FORMAT.
RejectNewPendingMessage(db, message_dict, reception_time) ==
    IF "item_hash" \notin DOMAIN message_dict
          \/ get_message_status(db, message_dict["item_hash"])
                 \notin {None, "rejected"}
    THEN db
    ELSE LET h == message_dict["item_hash"]
             rejected == [db EXCEPT !.rejected_messages =
                 {r \in @ : r.item_hash # h}
                 \cup {[item_hash |-> h, error_code |-> "INVALID_FORMAT",
                        errors |-> {}, traceback |-> None]}]
         IN IF get_message_status(db, h) = None
            THEN SetStatus(rejected, h, "rejected", reception_time)
            ELSE rejected

\* message_dict.get(key)
Get(message_dict, key) ==
    IF key \in DOMAIN message_dict THEN message_dict[key] ELSE None

\* Step 4: the row inserted for a new logical key.
NewPendingMessage(message_dict, reception_time, origin, tx_hash, check_message) ==
    [item_hash |-> message_dict["item_hash"],
     sender |-> message_dict["sender"],
     type |-> message_dict["type"],
     signature |-> Get(message_dict, "signature"),
     item_type |-> message_dict["item_type"],
     item_content |-> Get(message_dict, "item_content"),
     time |-> message_dict["time"],
     tx_hash |-> tx_hash,
     reception_time |-> reception_time,
     retries |-> 0,
     fetched |-> (message_dict["item_type"] = "inline"),
     check_message |-> check_message,
     origin |-> origin]

\* Step 4: the rows with the logical key of the candidate.
ExistingNever(db, candidate) == {}
Existing(db, candidate) ==
    {p \in db.pending_messages :
        get_pending_message_id(p) = get_pending_message_id(candidate)}

add_pending_message(db, message_dict, reception_time, origin, tx_hash, check_message) ==
    IF ~WellFormed(message_dict)
    THEN [db |-> RejectNewPendingMessage(db, message_dict, reception_time),
          ret |-> None]
    ELSE LET candidate == NewPendingMessage(message_dict, reception_time,
                                            origin, tx_hash, check_message)
             h == candidate.item_hash
             existing == Existing(db, candidate)
             inserted == [db EXCEPT !.pending_messages = @ \cup {candidate}]
             with_status ==
                 IF get_message_status(db, h) = None
                 THEN SetStatus(inserted, h, "pending", reception_time)
                 ELSE inserted
         IN IF existing # {}
            THEN [db |-> EnsureConfirmation(db, h, tx_hash),
                  ret |-> CHOOSE p \in existing : TRUE]
            ELSE [db |-> EnsureConfirmation(with_status, h, tx_hash),
                  ret |-> candidate]

(***************************************************************************)
(* The rest of the state.                                                  *)
(***************************************************************************)
VARIABLES
    storage,    \* the storage service: hash -> JSON value
    seen_ids,   \* the seen_ids set of the running process_pending_txs
    now,        \* utc_now()
    ret,        \* reception_time of the row the last call by a peer returned
    run,        \* the last execution of handle_pending_tx
    passed,     \* item hashes handle_pending_tx passed to add_pending_message
    raised,     \* hashes of the txs on which handle_pending_tx raised
    codec,      \* one use of get_chaindata and of get_tx_messages on its output
    call,       \* one call of get_tx_messages: its arguments and its result
    job,        \* process_pending_messages: the running scan and the message tasks
    request     \* one call of get_executable_message: its arguments and its result

dbvars == <<chain_txs, pending_txs, pending_messages, message_status, messages,
            rejected_messages, forgotten_messages, message_confirmations,
            stored_files, file_pins, file_refs, vms>>

\* The origin of a pub/sub admission and the origin add_pending_message
\* takes when the caller gives none.
P2P == "p2p"
DefaultOrigin == P2P

\* item_hash of the dicts of a list.
ItemHashesOf(message_dicts) ==
    {message_dicts[i]["item_hash"] : i \in 1..Len(message_dicts)}

(***************************************************************************)
(* PendingTxProcessor.handle_pending_tx and the loop around it.            *)
(***************************************************************************)
\* A loop that a rejected candidate ends.
RECURSIVE AdmitUntilRejected(_, _, _, _, _)
AdmitUntilRejected(db, message_dicts, reception_time, tx_hash, check_message) ==
    IF message_dicts = <<>> THEN db
    ELSE LET added == add_pending_message(db, Head(message_dicts),
                          reception_time, DefaultOrigin, tx_hash, check_message)
         IN IF ~WellFormed(Head(message_dicts)) THEN added.db
            ELSE AdmitUntilRejected(added.db, Tail(message_dicts),
                                    reception_time, tx_hash, check_message)

\* The loop `for message_dict in messages: add_pending_message(...)`.
RECURSIVE AdmitAll(_, _, _, _, _)
AdmitAll(db, message_dicts, reception_time, tx_hash, check_message) ==
    IF message_dicts = <<>> THEN db
    ELSE AdmitAll(add_pending_message(db, Head(message_dicts), reception_time,
                                      DefaultOrigin, tx_hash, check_message).db,
                  Tail(message_dicts), reception_time, tx_hash, check_message)

\* An exception leaves process_pending_txs; handle_txs_task logs it and calls
\* process_pending_txs again, which starts from a new seen_ids set.
SeenAfterExceptionKept(seen) == seen
SeenAfterException(seen) == {}

\* check_message=tx.protocol != ChainSyncProtocol.SMART_CONTRACT
CheckMessageAlways(tx) == TRUE
CheckMessageOfTx(tx) == tx.protocol # SMART_CONTRACT

\* `if messages is not None`: get_tx_messages returned, with a list that may
\* be empty.
ShouldDeleteNonEmpty(result) == result.status = "ok" /\ result.messages # <<>>
ShouldDelete(result) == result.status = "ok"

\* A handler that takes every delivered hash for a pending tx.
PendingTxIsNoneNever(rows, tx_hash) == FALSE

\* get_pending_tx(...) is None: no PendingTx row for the delivered hash.
PendingTxIsNone(rows, tx_hash) == tx_hash \notin rows

\* One delivery of pending_tx_hash by the broker.  `avail` is the answer of
\* the storage service, should it be asked.
HandlePendingTx(pending_tx_hash, avail) ==
    LET tx == ChainTx[pending_tx_hash]
        result == get_tx_messages(tx, seen_ids, storage, avail)
        admitted == AdmitAll(DB, result.messages, now, tx.hash,
                             CheckMessageOfTx(tx))
    IN /\ pending_tx_hash \in chain_txs
       /\ IF PendingTxIsNone(pending_txs, pending_tx_hash)
          THEN /\ run' = [tx_hash |-> pending_tx_hash, status |-> "absent",
                          fetched |-> FALSE, admitted |-> <<>>]
               /\ UNCHANGED <<dbvars, seen_ids, passed, raised>>
          ELSE IF result.status # "ok"
          THEN /\ run' = [tx_hash |-> pending_tx_hash, status |-> result.status,
                          fetched |-> result.fetched, admitted |-> <<>>]
               /\ seen_ids' = SeenAfterException(result.seen_ids)
               /\ raised' = raised \cup {pending_tx_hash}
               /\ UNCHANGED <<dbvars, passed>>
          ELSE /\ run' = [tx_hash |-> pending_tx_hash, status |-> "ok",
                          fetched |-> result.fetched,
                          admitted |-> SeqMap(LAMBDA d : d["item_hash"],
                                              result.messages)]
               /\ seen_ids' = result.seen_ids
               /\ passed' = passed \cup ItemHashesOf(result.messages)
               /\ stored_files' = IF result.pinned
                                   THEN stored_files \cup {tx.content}
                                   ELSE stored_files
               /\ file_pins' = IF result.pinned
                                THEN file_pins \cup {<<tx.content, tx.hash>>}
                                ELSE file_pins
               /\ SetDB(admitted)
               /\ pending_txs' = IF ShouldDelete(result)
                                  THEN pending_txs \ {pending_tx_hash}
                                  ELSE pending_txs
               /\ UNCHANGED <<chain_txs, raised>>
       /\ UNCHANGED <<storage, now, ret, codec, call, job, request>>

\* ChainDataService.incoming_chaindata: a tx read from a chain is recorded
\* with its PendingTx row.
IncomingChaindata(tx_hash) ==
    /\ tx_hash \notin chain_txs
    /\ chain_txs' = chain_txs \cup {tx_hash}
    /\ pending_txs' = pending_txs \cup {tx_hash}
    /\ UNCHANGED <<pending_messages, message_status, messages, rejected_messages,
                   forgotten_messages, message_confirmations, stored_files,
                   file_pins, file_refs, vms, storage, seen_ids, now, ret, run,
                   passed, raised, codec, call, job, request>>

\* A message received from a peer (pub/sub) is handed to the publisher.
P2PAdmit(item_hash) ==
    LET r == add_pending_message(DB, WireDict(item_hash), now, P2P, None, TRUE)
    IN /\ SetDB(r.db)
       /\ ret' = [reception_time |-> r.ret.reception_time, call_time |-> now]
       /\ UNCHANGED <<chain_txs, pending_txs, stored_files, file_pins,
                      storage, seen_ids, now, run, passed, raised, codec, call, job, request>>

\* Time passes.
Tick ==
    /\ now < MaxTime
    /\ now' = now + 1
    /\ UNCHANGED <<dbvars, storage, seen_ids, ret, run, passed, raised, codec, call, job, request>>

(***************************************************************************)
(* The pending-message job.  handle_pending_message is in the source; the  *)
(* incoming() it calls is modelled from section 4.4 of the specification   *)
(* (steps 5 to 8) and the forget handler from section 4.5.                 *)
(***************************************************************************)
\* What the type handler of a message answers when nothing transient is in
\* the way: m1 and f1 are valid, and so is m2 when the database has the files
\* of its volumes (MissingVolumes).
PermanentResult ==
    [m1 |-> [result |-> "committed", error_code |-> None],
     m2 |-> [result |-> "committed", error_code |-> None],
     f1 |-> [result |-> "committed", error_code |-> None]]

\* The same for any message: the posts b1 and x1 and the store message of a
\* smart-contract event have nothing a type handler refuses.
HandlerAnswer(item_hash) ==
    IF item_hash \in DOMAIN PermanentResult THEN PermanentResult[item_hash]
    ELSE [result |-> "committed", error_code |-> None]

RetryLater == [result |-> "retry_later", error_code |-> None]

\* Step 7: RejectedMessage row, status rejected.  Only a pending message is
\* transitioned (section 3, lifecycle).  `errors` is details.errors (empty
\* when the rejection has no details); no traceback is stored for a rejection
\* the pipeline decides.
RejectWithDetails(db, pending, error_code, errors) ==
    IF get_message_status(db, pending.item_hash) # "pending" THEN db
    ELSE Transition(
            [db EXCEPT !.rejected_messages =
                {r \in @ : r.item_hash # pending.item_hash}
                \cup {[item_hash |-> pending.item_hash, error_code |-> error_code,
                       errors |-> errors, traceback |-> None]}],
            pending.item_hash, "rejected")

Reject(db, pending, error_code) == RejectWithDetails(db, pending, error_code, {})

\* Section 4.5, program and instance: the types that declare volumes.
VmTypes == {"program", "instance"}

\* Every volume taken as resolved.
ResolvesAlways(db, volume) == TRUE

\* A volume is resolved by its tag when the latest version is asked for, by
\* the pin of the message `ref` otherwise, and the file must be stored.
Resolves(db, volume) ==
    IF volume.use_latest
    THEN \E tag \in db.file_refs.tags :
            tag.tag = volume.ref /\ tag.file_hash \in db.stored_files
    ELSE \E pin \in db.file_refs.pins :
            pin.item_hash = volume.ref /\ pin.file_hash \in db.stored_files

\* The refs of the declared volumes that resolve to no stored file.
MissingVolumes(db, pending) ==
    IF pending.type \notin VmTypes THEN {}
    ELSE {volume.ref : volume \in
            {v \in get_volume_refs(ParseContent(pending.item_content)) :
                ~Resolves(db, v)}}

\* A VM row with no owner and no current version.
CreateVmUnowned(db, pending) ==
    [db EXCEPT !.vms.instances =
        @ \cup {[item_hash |-> pending.item_hash, owner |-> None,
                 volumes |-> ParseContent(pending.item_content).volumes]}]

\* The VM row of a program or instance and the pointer to its current
\* version.
CreateVm(db, pending) ==
    [db EXCEPT
        !.vms.instances =
            @ \cup {[item_hash |-> pending.item_hash, owner |-> pending.sender,
                     volumes |-> ParseContent(pending.item_content).volumes]},
        !.vms.vm_versions =
            {v \in @ : v.vm_hash # pending.item_hash}
            \cup {[vm_hash |-> pending.item_hash, owner |-> pending.sender,
                   current_version |-> pending.item_hash]}]

\* A forget that leaves the rows of the VM.
DeleteVmNever(db, item_hash) == db

\* The VM row of a forgotten message and its vm_version row are deleted.
DeleteVm(db, item_hash) ==
    [db EXCEPT !.vms.instances = {i \in @ : i.item_hash # item_hash},
               !.vms.vm_versions = {v \in @ : v.vm_hash # item_hash}]

\* The targets a forget message may forget: processed, and sent by its sender.
ForgetTargets(db, pending) ==
    {t \in ForgetHashes[pending.item_hash] :
        /\ get_message_status(db, t) = "processed"
        /\ MsgSender[t] = pending.sender}

\* DELETE of a row of `messages`.  message_confirmations.item_hash references
\* messages.item_hash with no ON DELETE action, so the delete of the row of a
\* confirmed message is refused: the result is [ok, db], ok = FALSE when the
\* statement raised.
DeleteMessageRowCascade(db, item_hash) ==
    [ok |-> TRUE,
     db |-> [db EXCEPT !.messages = @ \ {item_hash},
                       !.message_confirmations = {c \in @ : c[1] # item_hash}]]

DeleteMessageRow(db, item_hash) ==
    IF \E c \in db.message_confirmations : c[1] = item_hash
    THEN [ok |-> FALSE, db |-> db]
    ELSE [ok |-> TRUE, db |-> [db EXCEPT !.messages = @ \ {item_hash}]]

\* Section 4.5, forget of one target: messages row deleted, tombstone, status
\* forgotten.
Tombstone(db, t, by) ==
    Transition(
        [db EXCEPT !.forgotten_messages =
            {r \in @ : r.item_hash # t}
            \cup {[item_hash |-> t, forgotten_by |-> <<by>>]}],
        t, "forgotten")

ForgetOne(db, t, by) ==
    LET deleted == DeleteMessageRow(db, t)
    IN IF deleted.ok
       THEN [ok |-> TRUE, db |-> Tombstone(DeleteVm(deleted.db, t), t, by)]
       ELSE [ok |-> FALSE, db |-> db]

RECURSIVE ForgetAll(_, _, _)
ForgetAll(db, targets, by) ==
    IF targets = {} THEN [ok |-> TRUE, db |-> db]
    ELSE LET t == CHOOSE x \in targets : TRUE
             one == ForgetOne(db, t, by)
         IN IF one.ok THEN ForgetAll(one.db, targets \ {t}, by) ELSE one

\* Step 6: Message row (with the confirmation by the tx the pending message
\* came from), status processed.  Only a pending message is transitioned; a
\* message already processed is confirmed.  The result is [ok, db].
CommitAnyStatus(db, pending) ==
    LET h == pending.item_hash
    IN [ok |-> TRUE,
        db |-> EnsureConfirmation(
                  Transition([db EXCEPT !.messages = @ \cup {h}], h, "processed"),
                  h, pending.tx_hash)]

Commit(db, pending) ==
    LET h == pending.item_hash
        status == get_message_status(db, h)
        written == Transition([db EXCEPT !.messages = @ \cup {h}], h, "processed")
        confirmed == EnsureConfirmation(written, h, pending.tx_hash)
    IN IF status = "pending"
       THEN IF pending.type = "forget"
            THEN ForgetAll(confirmed, ForgetTargets(db, pending), h)
            ELSE IF pending.type \in VmTypes
            THEN [ok |-> TRUE, db |-> CreateVm(confirmed, pending)]
            ELSE [ok |-> TRUE, db |-> confirmed]
       ELSE IF status = "processed"
            THEN [ok |-> TRUE, db |-> EnsureConfirmation(db, h, pending.tx_hash)]
            ELSE [ok |-> TRUE, db |-> db]

\* Step 8: the retry counter is capped by max_retries.
RetriesExceededNever(pending) == FALSE
RetriesExceeded(pending) == pending.retries >= MaxRetries

\* A retry that also records the failure as a rejection.
RetryRecorded(db, pending) ==
    [status |-> "RETRYING_LATER",
     db |-> Reject([db EXCEPT !.pending_messages =
                       (@ \ {pending}) \cup {[pending EXCEPT !.retries = @ + 1]}],
                   pending, "INTERNAL_ERROR")]

\* Step 8 and section 7: retry later, or reject once the cap is reached.
Retry(db, pending) ==
    IF RetriesExceeded(pending)
    THEN [status |-> "FAILED_PERMANENTLY",
          db |-> Reject(db, pending, "EXCEEDED_AMT_OF_RETRIES")]
    ELSE [status |-> "RETRYING_LATER",
          db |-> [db EXCEPT !.pending_messages =
                     (@ \ {pending}) \cup {[pending EXCEPT !.retries = @ + 1]}]]

\* check_message=pending["source"].get("check_message", True)
CheckMessageDefaultFalse(pending) ==
    IF "check_message" \in DOMAIN pending THEN pending.check_message ELSE FALSE
CheckMessage(pending) ==
    IF "check_message" \in DOMAIN pending THEN pending.check_message ELSE TRUE

\* Step 2: the content of a message not yet fetched is resolved and its hash
\* verified; a message marked fetched is taken as it is.
HashVerified(pending) ==
    pending.fetched \/ get_sha256(pending.item_content) = pending.item_hash

\* Step 3: the signature the sender's scheme gives for the message.
ValidSignature == "sig"
SignatureVerified(pending) == pending.signature = ValidSignature

\* incoming(): [status, db].  `answer` is what the type handler answers.  An
\* exception in the handler is classified as a retry (section 7) and leaves
\* none of the handler's writes behind.
incoming(db, pending, answer) ==
    IF ~HashVerified(pending)
    THEN [status |-> "FAILED_PERMANENTLY",
          db |-> Reject(db, pending, "CONTENT_HASH_MISMATCH")]
    ELSE IF CheckMessage(pending) /\ ~SignatureVerified(pending)
    THEN [status |-> "FAILED_PERMANENTLY",
          db |-> Reject(db, pending, "INVALID_SIGNATURE")]
    ELSE IF answer.result = "committed" /\ MissingVolumes(db, pending) # {}
    THEN [status |-> "FAILED_PERMANENTLY",
          db |-> RejectWithDetails(db, pending, "VM_VOLUME_NOT_FOUND",
                                   MissingVolumes(db, pending))]
    ELSE IF answer.result = "committed"
    THEN LET c == Commit(db, pending)
         IN IF c.ok THEN [status |-> "MESSAGE_HANDLED", db |-> c.db]
            ELSE Retry(db, pending)
    ELSE IF answer.result = "rejected"
         THEN [status |-> "FAILED_PERMANENTLY",
               db |-> Reject(db, pending, answer.error_code)]
         ELSE Retry(db, pending)

\* delete_pending_message_op is applied unless the status is RETRYING_LATER.
DeletePending(status) == status # "RETRYING_LATER"

\* parse_message(pending["message"]) raises InvalidMessageError: the message
\* of the entry is not one of a known type and item type.
InvalidMessage(pending) ==
    ~(pending.type \in MessageTypes /\ pending.item_type \in ItemTypes)

\* The status handle_pending_message ends with; an entry that does not parse
\* never reaches incoming().
Outcome(db, pending, answer) ==
    IF InvalidMessage(pending) THEN "INVALID_MESSAGE"
    ELSE incoming(db, pending, answer).status

\* The operations handle_pending_message returns, applied: an entry that does
\* not parse is dropped, and nothing else is written.
handle_pending_message(db, pending, answer) ==
    IF InvalidMessage(pending)
    THEN [db EXCEPT !.pending_messages = @ \ {pending}]
    ELSE LET r == incoming(db, pending, answer)
         IN IF DeletePending(r.status)
            THEN [r.db EXCEPT !.pending_messages = @ \ {pending}]
            ELSE r.db

\* handle_pending_message, with the operations it returns applied.
HandlePendingMessage(pending, answer) ==
    LET db == handle_pending_message(DB, pending, answer)
    IN /\ pending \in pending_messages
       /\ answer \in {HandlerAnswer(pending.item_hash), RetryLater}
       /\ SetDB(db)
       /\ UNCHANGED <<chain_txs, pending_txs, stored_files, file_pins,
                      storage, seen_ids, now, ret, run, passed, raised, codec, call, job, request>>

\* An entry of the pending queue whose message does not parse: its item_type
\* is none of the enum.
InvalidPending ==
    [item_hash |-> "u1", sender |-> "alice", type |-> "post",
     signature |-> "sig", item_type |-> "unknown", item_content |-> "post u",
     time |-> 60, tx_hash |-> None, reception_time |-> 0, retries |-> 0,
     fetched |-> FALSE, check_message |-> TRUE, origin |-> P2P]

\* The job reads the pending queue as it finds it: an entry that was written
\* without validation ("if an invalid message somehow ended in pending
\* messages") is there, with the status of a pending message.
InsertInvalidPending ==
    /\ InvalidPending \notin pending_messages
    /\ get_message_status(DB, InvalidPending.item_hash) = None
    /\ SetDB(SetStatus([DB EXCEPT !.pending_messages = @ \cup {InvalidPending}],
                       InvalidPending.item_hash, "pending", now))
    /\ UNCHANGED <<chain_txs, pending_txs, stored_files, file_pins,
                   storage, seen_ids, now, ret, run, passed, raised, codec, call, job, request>>

\* The pending messages of the instance scenarios: inline, hence fetched, and
\* admitted with check_message = false.
AdmitUnchecked(item_hash) ==
    LET r == add_pending_message(DB, WireDict(item_hash), now, P2P, None, FALSE)
    IN /\ SetDB(r.db)
       /\ UNCHANGED <<chain_txs, pending_txs, stored_files, file_pins,
                      storage, seen_ids, now, ret, run, passed, raised, codec, call, job, request>>

\* insert_volume_refs, for one volume: the stored file, the pin of the
\* message `ref` on it and, when the latest version is asked for, the tag.
InsertVolumeRef(volume) ==
    LET file_hash == Reversed(volume.ref)
        owner == InstanceContent.address
    IN /\ file_hash \notin stored_files
       /\ stored_files' = stored_files \cup {file_hash}
       /\ file_refs' =
            [pins |-> file_refs.pins
                        \cup {[file_hash |-> file_hash, owner |-> owner,
                               item_hash |-> volume.ref]},
             tags |-> IF volume.use_latest
                      THEN file_refs.tags
                              \cup {[tag |-> volume.ref, owner |-> owner,
                                     file_hash |-> file_hash]}
                      ELSE file_refs.tags]
       /\ UNCHANGED <<chain_txs, pending_txs, pending_messages, message_status,
                      messages, rejected_messages, forgotten_messages,
                      message_confirmations, file_pins, vms, storage, seen_ids,
                      now, ret, run, passed, raised, codec, call, job, request>>

\* A ChainTx row is deleted (a chain reorganisation): ON DELETE CASCADE
\* removes the confirmations by this tx.
DeleteChainTx(tx_hash) ==
    /\ tx_hash \in chain_txs
    /\ tx_hash \notin pending_txs
    /\ \A p \in pending_messages : p.tx_hash # tx_hash
    /\ \A f \in file_pins : f[2] # tx_hash
    /\ chain_txs' = chain_txs \ {tx_hash}
    /\ message_confirmations' = {c \in message_confirmations : c[2] # tx_hash}
    /\ UNCHANGED <<pending_txs, pending_messages, message_status, messages,
                   rejected_messages, forgotten_messages, stored_files, file_pins,
                   file_refs, vms, storage, seen_ids, now, ret, run, passed, raised,
                   codec, call, job, request>>

(***************************************************************************)
(* process_pending_messages and retry_messages_task.  job is               *)
(*   [pc, run, cursor, processing_messages, tasks, semaphores, seen_ids,    *)
(*    shared_stats, outcome]                                               *)
(* pc is the position of process_pending_messages ("idle" when it is not   *)
(* running), run counts its calls, cursor holds the rows the current find  *)
(* has yet to yield.  A task is [run, pending, state, answer]: the call of *)
(* process_pending_messages that created it, the row it handles, and       *)
(* "created" (waiting for its semaphore), "running" (inside incoming) or   *)
(* "done" (finished, its operations waiting to be collected).  The         *)
(* operations of a task are applied when the task is collected.            *)
(* semaphores maps each semaphore created so far to its value, seen_ids is *)
(* the dict handed to incoming() as a set of [item_hash, sender,           *)
(* chain_name, height], shared_stats the counters of the caller, and       *)
(* outcome how the last call of process_pending_messages ended.            *)
(***************************************************************************)
\* config.aleph.jobs.pending_messages: max_concurrency, and the message types
\* that are given a value of their own.
PendingMessagesConfig == [max_concurrency |-> 2, post |-> 1]

max_concurrent_tasks == PendingMessagesConfig.max_concurrency

\* init_semaphores: the size of the BoundedSemaphore of a message type.
SemValue(message_type) ==
    IF message_type \in DOMAIN PendingMessagesConfig
    THEN PendingMessagesConfig[message_type]
    ELSE PendingMessagesConfig.max_concurrency

\* sort([("retries", ASCENDING), ("message.time", ASCENDING)])
Before(p, q) ==
    p.retries < q.retries \/ (p.retries = q.retries /\ p.time <= q.time)

\* A find() sorted on message.time alone.
RECURSIVE SortedByTime(_)
SortedByTime(rows) ==
    IF rows = {} THEN <<>>
    ELSE LET first == CHOOSE p \in rows : \A q \in rows : p.time <= q.time
         IN <<first>> \o SortedByTime(rows \ {first})

RECURSIVE Sorted(_)
Sorted(rows) ==
    IF rows = {} THEN <<>>
    ELSE LET first == CHOOSE p \in rows : \A q \in rows : Before(p, q)
         IN <<first>> \o Sorted(rows \ {first})

NoAnswer == [result |-> None, error_code |-> None]

\* A task handed the semaphore of the posts whatever its message.
SemaphoreOfPosts(r, pending) == [run |-> r, message_type |-> "post"]

\* sem=semaphores[message_type], message_type = MessageType(pending["message"]
\* ["type"]): the semaphore of the type of the message, among those the call r
\* of process_pending_messages created.
Semaphore(r, pending) == [run |-> r, message_type |-> pending.type]

\* asyncio.create_task(handle_pending_message(pending, sem, seen_ids)).
\* `permits` is the list of the semaphores the task has acquired and not
\* released.
Task(pending) ==
    [run |-> job.run, pending |-> pending, state |-> "created",
     answer |-> NoAnswer, sem |-> Semaphore(job.run, pending), permits |-> <<>>]

\* pending_tasks of a call of process_pending_messages, and those that
\* asyncio.wait returns as finished.
TasksOf(r) == {t \in job.tasks : t.run = r}
Finished(r) == {t \in TasksOf(r) : t.state = "done"}

\* init_semaphores(config), for the call r of process_pending_messages: one
\* BoundedSemaphore for each message type.
init_semaphores(r) ==
    [sem \in {[run |-> r, message_type |-> T] : T \in MessageTypes}
        |-> SemValue(sem.message_type)]

\* A semaphore that is not given its permit back.
ReleaseNever(semaphores, sem) == semaphores

\* Leaving `async with sem:`, by a return or by an exception.
Release(semaphores, sem) == [semaphores EXCEPT ![sem] = @ + 1]

\* Entering `async with sem:`.
Acquire(semaphores, sem) == [semaphores EXCEPT ![sem] = @ - 1]

\* The end of a task on an exception that incoming() lets through.
UnexpectedException == [result |-> "raised", error_code |-> None]

\* shared_stats as process_pending_messages resets it.
NoStats ==
    [retry_messages_job_tasks |-> 0, message_jobs |-> [T \in MessageTypes |-> 0]]

\* shared_stats after n tasks of the given type were created (n = 1) or
\* collected (n = -1).
Counted(shared_stats, message_type, n) ==
    [shared_stats EXCEPT !.retry_messages_job_tasks = @ + n,
                         !.message_jobs[message_type] = @ + n]

RECURSIVE Uncounted(_, _)
Uncounted(shared_stats, tasks) ==
    IF tasks = {} THEN shared_stats
    ELSE LET t == CHOOSE x \in tasks : TRUE
         IN Uncounted(Counted(shared_stats, t.pending.type, -1), tasks \ {t})

\* The operations handle_pending_message returned, applied.  A task that
\* raised returned none: process_job_results is given the tasks and on_error,
\* a logging call.
ApplyResult(db, task) ==
    IF task.answer = UnexpectedException THEN db
    ELSE handle_pending_message(db, task.pending, task.answer)

RECURSIVE ApplyResults(_, _)
ApplyResults(db, tasks) ==
    IF tasks = {} THEN db
    ELSE LET t == CHOOSE x \in tasks : TRUE
         IN ApplyResults(ApplyResult(db, t), tasks \ {t})

\* process_message_job_results: the finished tasks leave pending_tasks and
\* their ids leave processing_messages.
Collected ==
    [job EXCEPT
        !.tasks = @ \ Finished(job.run),
        !.shared_stats = Uncounted(@, Finished(job.run)),
        !.processing_messages =
            @ \ {get_pending_message_id(t.pending) : t \in Finished(job.run)}]

\* What incoming() may leave in seen_ids for the entry it was given: nothing,
\* or the height of the entry under the key (item_hash, sender, chain_name),
\* when the entry comes from a tx.
Recorded(seen, pending) ==
    {e \in seen : ~(/\ e.item_hash = pending.item_hash
                    /\ e.sender = pending.sender
                    /\ e.chain_name = SourceChain(pending.tx_hash))}
        \cup {[item_hash |-> pending.item_hash, sender |-> pending.sender,
               chain_name |-> SourceChain(pending.tx_hash),
               height |-> SourceHeight(pending.tx_hash)]}

SeenUpdates(seen, pending) ==
    IF pending.tx_hash = None THEN {seen} ELSE {seen, Recorded(seen, pending)}

\* The entries the DeleteMany of one (key, height) of seen_ids matches:
\* "source.height": {"$gt": height}.
Matched(rows, e) ==
    {p \in rows : /\ p.item_hash = e.item_hash
                  /\ p.sender = e.sender
                  /\ SourceChain(p.tx_hash) = e.chain_name
                  /\ SourceHeight(p.tx_hash) > e.height}

\* `if count_documents(find_params) > 100000:` and the bulk_write of one
\* DeleteMany for each item of seen_ids.
Clean(db, seen) ==
    IF Cardinality(db.pending_messages) > HighWaterMark
    THEN [db EXCEPT !.pending_messages =
             {p \in @ : \A e \in seen : p \notin Matched(@, e)}]
    ELSE db

\* The task created for a row, counted in shared_stats.
Created(j, pending) ==
    [j EXCEPT !.tasks = @ \cup {Task(pending)},
              !.shared_stats = Counted(@, pending.type, 1)]

jobrest == <<chain_txs, pending_txs, stored_files, file_pins, storage, seen_ids,
             now, ret, run, passed, raised, codec, call, request>>

\* retry_messages_task calls process_pending_messages: new processing_messages,
\* new semaphores, new pending_tasks.
JobStart ==
    /\ job.pc = "idle"
    /\ job.run < MaxRuns
    /\ job' = [job EXCEPT !.pc = "count", !.run = @ + 1, !.cursor = <<>>,
                          !.processing_messages = {}, !.seen_ids = {},
                          !.semaphores = init_semaphores(job.run + 1) @@ @,
                          !.shared_stats = NoStats, !.outcome = None]
    /\ UNCHANGED <<dbvars, storage, seen_ids, now, ret, run, passed, raised,
                   codec, call, request>>

\* `while await count_documents(find_params)` and the find() that follows.
JobCount ==
    /\ job.pc = "count"
    /\ job' = IF pending_messages = {}
              THEN [job EXCEPT !.pc = "idle", !.outcome = "returned"]
              ELSE [job EXCEPT !.pc = "scan", !.cursor = Sorted(pending_messages)]
    /\ UNCHANGED <<dbvars, storage, seen_ids, now, ret, run, passed, raised,
                   codec, call, request>>

\* One iteration of `async for pending in ...`, up to the wait at the ceiling.
JobScan ==
    /\ job.pc = "scan"
    /\ job' =
         IF job.cursor = <<>> THEN [job EXCEPT !.pc = "sync"]
         ELSE LET pending == Head(job.cursor)
                  pending_message_id == get_pending_message_id(pending)
              IN IF pending_message_id \in job.processing_messages
                 THEN [job EXCEPT !.cursor = Tail(@)]
                 ELSE IF Cardinality(TasksOf(job.run)) = max_concurrent_tasks
                 THEN [job EXCEPT !.pc = "wait",
                          !.processing_messages = @ \cup {pending_message_id}]
                 ELSE Created([job EXCEPT !.cursor = Tail(@),
                          !.processing_messages = @ \cup {pending_message_id}],
                              pending)
    /\ UNCHANGED <<dbvars, storage, seen_ids, now, ret, run, passed, raised,
                   codec, call, request>>

\* asyncio.wait(FIRST_COMPLETED) at the ceiling, the results collected, and the
\* task of the current row created.
JobWait ==
    /\ job.pc = "wait"
    /\ Finished(job.run) # {}
    /\ SetDB(ApplyResults(DB, Finished(job.run)))
    /\ job' = Created([Collected EXCEPT !.pc = "scan", !.cursor = Tail(@)],
                       Head(job.cursor))
    /\ UNCHANGED jobrest

\* The synchronization point after the for loop, and the cleaning of the
\* collection.
JobSync ==
    /\ job.pc = "sync"
    /\ TasksOf(job.run) # {} => Finished(job.run) # {}
    /\ SetDB(Clean(ApplyResults(DB, Finished(job.run)), job.seen_ids))
    /\ job' = [Collected EXCEPT !.pc = "count"]
    /\ UNCHANGED jobrest

\* `async with sem:` entered.
TaskStart(t) ==
    /\ t \in job.tasks
    /\ t.state = "created"
    /\ job.semaphores[t.sem] > 0
    /\ job' = [job EXCEPT !.semaphores = Acquire(@, t.sem),
                  !.tasks = (@ \ {t})
                  \cup {[t EXCEPT !.state = "running",
                                  !.permits = Append(@, t.sem)]}]
    /\ UNCHANGED <<dbvars, storage, seen_ids, now, ret, run, passed, raised,
                   codec, call, request>>

\* incoming() returned and the semaphore is released.  The task of a call of
\* process_pending_messages that is over is awaited by nobody.
TaskFinish(t, answer) ==
    /\ t \in job.tasks
    /\ t.state = "running"
    /\ job' \in IF t.run = job.run /\ job.pc # "idle"
              THEN {[job EXCEPT !.semaphores = Release(@, t.sem),
                        !.seen_ids = seen,
                        !.tasks = (@ \ {t})
                        \cup {[t EXCEPT !.state = "done", !.answer = answer,
                                        !.permits = Tail(@)]}] :
                        seen \in SeenUpdates(job.seen_ids, t.pending)}
              ELSE {[job EXCEPT !.semaphores = Release(@, t.sem),
                                !.tasks = @ \ {t}]}
    /\ UNCHANGED <<dbvars, storage, seen_ids, now, ret, run, passed, raised,
                   codec, call, request>>

\* A database call of process_pending_messages raises: the exception leaves
\* the function, retry_messages_task logs it, and the tasks go on.
JobException ==
    /\ job.pc \in {"count", "scan", "wait", "sync"}
    /\ job.run < MaxRuns
    /\ job' = [job EXCEPT !.pc = "idle", !.cursor = <<>>, !.outcome = "raised",
                          !.tasks = {t \in @ : t.state # "done"}]
    /\ UNCHANGED <<dbvars, storage, seen_ids, now, ret, run, passed, raised,
                   codec, call, request>>

(***************************************************************************)
(* One use of the outgoing path: get_chaindata on a list of messages, the  *)
(* envelope put in a transaction, and get_tx_messages on the ChainTx a     *)
(* node records for that transaction.                                      *)
(***************************************************************************)
\* bulk_threshold: int = 2000
DEFAULT_BULK_THRESHOLD == 2000

\* Lists of at most n item hashes.
RECURSIVE ListsUpTo(_)
ListsUpTo(n) ==
    IF n = 0 THEN {<<>>}
    ELSE ListsUpTo(n - 1)
         \cup {Append(l, h) : l \in {x \in ListsUpTo(n - 1) : Len(x) = n - 1},
                              h \in ItemHashes}

\* The length of the on-chain text of a list of messages.
SerializedSize(item_hashes) ==
    Len(json_dumps(OnChainEnvelope(SeqMap(WireDict, item_hashes))))

\* The thresholds tried for a text of length n: around n, and the values of
\* the specification's scenarios.
Thresholds(n) == {n - 1, n, n + 1, 50, DEFAULT_BULK_THRESHOLD, 100000}

\* The ChainTx a chain connector records for a transaction that carries the
\* envelope: protocol, version and content are those of the envelope.
TxOfEnvelope(envelope) ==
    [hash |-> "tx", chain |-> "ETH", height |-> 9, datetime |-> Datetime(109),
     protocol |-> envelope.protocol, protocol_version |-> envelope.version,
     content |-> envelope.content]

NoResult == Raise(None, {}, FALSE)

Encode(item_hashes, bulk_threshold) ==
    LET r == get_chaindata(SeqMap(MessageDb, item_hashes), bulk_threshold, storage)
    IN /\ codec.pc = "idle"
       /\ codec' = [pc |-> "encoded", msgs |-> item_hashes,
                    bulk_threshold |-> bulk_threshold,
                    protocol |-> r.envelope.protocol,
                    content |-> r.envelope.content,
                    added |-> r.added, avail |-> None, result |-> NoResult]
       /\ storage' = r.storage
       /\ UNCHANGED <<dbvars, seen_ids, now, ret, run, passed, raised, call, job, request>>

Decode(avail) ==
    LET envelope == [protocol |-> codec.protocol, version |-> 1,
                     content |-> codec.content]
    IN /\ codec.pc = "encoded"
       /\ codec' = [codec EXCEPT
              !.pc = "decoded", !.avail = avail,
              !.result = get_tx_messages(TxOfEnvelope(envelope), {}, storage, avail)]
       /\ UNCHANGED <<dbvars, storage, seen_ids, now, ret, run, passed, raised,
                      call, job, request>>

(***************************************************************************)
(* One call of get_tx_messages, on transactions of every protocol and      *)
(* version and with every shape of content.                                *)
(***************************************************************************)
\* A ChainTxDb row.
DecodeRow(hash, protocol, protocol_version, content) ==
    [hash |-> hash, chain |-> "ETH", height |-> 7, datetime |-> Datetime(107),
     protocol |-> protocol, protocol_version |-> protocol_version,
     content |-> content]

DecodeTx ==
    [d01 |-> DecodeRow("d01", ON_CHAIN_SYNC, 1, [messages |-> Bundle]),
     d02 |-> DecodeRow("d02", ON_CHAIN_SYNC, 1, [messages |-> <<>>]),
     d03 |-> DecodeRow("d03", ON_CHAIN_SYNC, 1,
                       [messages |-> [m1 |-> WireDict("m1")]]),
     d04 |-> DecodeRow("d04", ON_CHAIN_SYNC, 1, [msgs |-> Bundle]),
     d05 |-> DecodeRow("d05", OFF_CHAIN_SYNC, 1, BareHash),
     d06 |-> DecodeRow("d06", OFF_CHAIN_SYNC, 1, EnvelopeHash),
     d07 |-> DecodeRow("d07", OFF_CHAIN_SYNC, 1, "Qm:nowhere"),
     d08 |-> DecodeRow("d08", SMART_CONTRACT, 1, Payload("STORE_IPFS")),
     d09 |-> DecodeRow("d09", SMART_CONTRACT, 1, Payload("STORE")),
     d10 |-> DecodeRow("d10", SMART_CONTRACT, 1, [timestamp |-> 50, addr |-> "tz1"]),
     d11 |-> DecodeRow("d11", "aleph-future-sync", 1, [messages |-> Bundle]),
     d12 |-> DecodeRow("d12", ON_CHAIN_SYNC, 2, [messages |-> Bundle]),
     d13 |-> DecodeRow("d13", OFF_CHAIN_SYNC, 2, BareHash),
     d14 |-> DecodeRow("d14", SMART_CONTRACT, 2, Payload("STORE_IPFS"))]

\* The seen_ids sets a caller may hold.
SeenSets == SUBSET {BareHash, EnvelopeHash}

\* get_tx_messages(tx, seen_ids) with the storage service answering `avail`.
GetTxMessages(d, seen, avail) ==
    /\ call' = [tx |-> d, seen |-> seen, avail |-> avail,
                result |-> get_tx_messages(DecodeTx[d], seen, storage, avail)]
    /\ UNCHANGED <<dbvars, storage, seen_ids, now, ret, run, passed, raised,
                   codec, job, request>>

(***************************************************************************)
(* The price controller: get_executable_message(session, item_hash_str).   *)
(* A result is [raises, message]: the exception raised (None when the call *)
(* returns) and the message returned.                                      *)
(***************************************************************************)
\* MessageStatus, as section 3 of the specification lists it.
MessageStatus == {"pending", "processed", "rejected", "forgotten", "removing"}

\* The status codes of the HTTP exceptions: HTTPProcessing is the class of the
\* controller, the others are those of aiohttp.web.
HTTPStatus ==
    [HTTPProcessing |-> 102, HTTPBadRequest |-> 400, HTTPNotFound |-> 404,
     HTTPGone |-> 410]

MESSAGE_STATUS_EXCEPTIONS ==
    [pending |-> "HTTPProcessing", rejected |-> "HTTPNotFound",
     forgotten |-> "HTTPGone"]

\* ItemHash(item_hash_str) raises ValueError on a string that is neither a
\* sha256 digest nor a CID.
ItemHashStrings == {"m1", "m2", "not a hash"}
IsItemHash(item_hash_str) == item_hash_str \in DOMAIN MsgType

NoSession == [message_status |-> {}, messages |-> {}]
NoResponse == [raises |-> None, message |-> None]
RaiseError(exception) == [raises |-> exception, message |-> None]

\* assert message_status_db.status == MessageStatus.PROCESSED
AssertProcessed(status) == status = "processed"

get_executable_message(session, item_hash_str) ==
    IF ~IsItemHash(item_hash_str) THEN RaiseError("HTTPBadRequest")
    ELSE LET status == get_message_status(session, item_hash_str)
         IN IF status = None THEN RaiseError("HTTPNotFound")
            ELSE IF status \in DOMAIN MESSAGE_STATUS_EXCEPTIONS
            THEN RaiseError(MESSAGE_STATUS_EXCEPTIONS[status])
            ELSE IF ~AssertProcessed(status) THEN RaiseError("AssertionError")
            ELSE IF item_hash_str \notin session.messages
            THEN RaiseError("HTTPNotFound")
            ELSE IF MsgType[item_hash_str] \notin VmTypes
            THEN RaiseError("HTTPBadRequest")
            ELSE [raises |-> None, message |-> MessageDb(item_hash_str)]

\* The database a request may find: for each of m1 (a post) and m2 (an
\* instance), no status row or a row of any status, and the message row there
\* or not.
StatusTables ==
    {s \in SUBSET [item_hash : {"m1", "m2"}, status : MessageStatus,
                   reception_time : {0}] :
        \A r1, r2 \in s : r1.item_hash = r2.item_hash => r1 = r2}
Sessions == [message_status : StatusTables, messages : SUBSET {"m1", "m2"}]

GetExecutableMessage(session, item_hash_str) ==
    /\ request' = [session |-> session, item_hash_str |-> item_hash_str,
                   result |-> get_executable_message(session, item_hash_str)]
    /\ UNCHANGED <<dbvars, storage, seen_ids, now, ret, run, passed, raised,
                   codec, call, job>>

(***************************************************************************)
(* Specifications.                                                         *)
(***************************************************************************)
vars == <<chain_txs, pending_txs, pending_messages, message_status, messages,
          rejected_messages, forgotten_messages, message_confirmations,
          stored_files, file_pins, file_refs, vms, storage, seen_ids, now, ret,
          run, passed, raised, codec, call, job, request>>

Init ==
    /\ chain_txs = {}
    /\ pending_txs = {}
    /\ pending_messages = {}
    /\ message_status = {}
    /\ messages = {}
    /\ rejected_messages = {}
    /\ forgotten_messages = {}
    /\ message_confirmations = {}
    /\ stored_files = {}
    /\ file_pins = {}
    /\ file_refs = [pins |-> {}, tags |-> {}]
    /\ vms = [instances |-> {}, vm_versions |-> {}]
    /\ storage = InitialStorage
    /\ seen_ids = {}
    /\ now = 0
    /\ ret = [reception_time |-> 0, call_time |-> 0]
    /\ run = [tx_hash |-> None, status |-> None, fetched |-> FALSE,
              admitted |-> <<>>]
    /\ passed = {}
    /\ raised = {}
    /\ codec = [pc |-> "idle", msgs |-> <<>>, bulk_threshold |-> 0,
                protocol |-> None, content |-> None, added |-> FALSE,
                avail |-> None, result |-> NoResult]
    /\ call = [tx |-> None, seen |-> {}, avail |-> None, result |-> NoResult]
    /\ job = [pc |-> "idle", run |-> 0, cursor |-> <<>>,
              processing_messages |-> {}, tasks |-> {}, semaphores |-> <<>>,
              seen_ids |-> {}, shared_stats |-> NoStats, outcome |-> None]
    /\ request = [session |-> NoSession, item_hash_str |-> None,
                  result |-> NoResponse]

StorageAnswers == {"ok", "unavailable"}

\* The life of messages: pub/sub and one on-chain tx as ingress, the two jobs,
\* and chain reorganisations.
Next ==
    \/ \E h \in ItemHashes : P2PAdmit(h)
    \/ IncomingChaindata("t1")
    \/ \E t \in TxHashes, a \in StorageAnswers : HandlePendingTx(t, a)
    \/ \E p \in pending_messages :
         \E a \in {PermanentResult[p.item_hash], RetryLater} :
            HandlePendingMessage(p, a)
    \/ \E t \in TxHashes : DeleteChainTx(t)

Spec == Init /\ [][Next]_vars

\* Admission from peers over time, the handlers meeting nothing transient.
NextAdmit ==
    \/ \E h \in ItemHashes : P2PAdmit(h)
    \/ Tick
    \/ \E p \in pending_messages :
            HandlePendingMessage(p, PermanentResult[p.item_hash])

SpecAdmit == Init /\ [][NextAdmit]_vars

\* The pending-message job on messages from peers.  The scan of the job goes
\* through every pending row, so the rows of a message go on being handled
\* while there are some.
HandleRowsOf(item_hash) ==
    \E p \in pending_messages :
        /\ p.item_hash = item_hash
        /\ \E a \in {PermanentResult[p.item_hash], RetryLater} :
              HandlePendingMessage(p, a)

NextRetry ==
    \/ \E h \in ItemHashes : P2PAdmit(h)
    \/ \E h \in ItemHashes : HandleRowsOf(h)

SpecRetry ==
    Init /\ [][NextRetry]_vars /\ \A h \in ItemHashes : WF_vars(HandleRowsOf(h))

\* The Pending-Tx worker alone, on every tx of the model.
NextTx ==
    \/ \E t \in TxHashes : IncomingChaindata(t)
    \/ \E t \in TxHashes, a \in StorageAnswers : HandlePendingTx(t, a)

SpecTx == Init /\ [][NextTx]_vars

\* The tx worker on txs whose blobs differ, one of them carrying a malformed
\* candidate.
BatchTxHashes == {"t1", "t2", "t6"}
NextBatch ==
    \/ \E t \in BatchTxHashes : IncomingChaindata(t)
    \/ \E t \in BatchTxHashes, a \in StorageAnswers : HandlePendingTx(t, a)
    \/ Tick

SpecBatch == Init /\ [][NextBatch]_vars

\* The pending-message worker on a queue that holds the messages of peers and
\* an entry that does not parse.
NextInvalid ==
    \/ \E h \in ItemHashes : P2PAdmit(h)
    \/ InsertInvalidPending
    \/ Tick
    \/ \E p \in pending_messages :
            HandlePendingMessage(p, HandlerAnswer(p.item_hash))

SpecInvalid == Init /\ [][NextInvalid]_vars

\* The instance m2 and the forget f2 of m2 through the pending-message
\* worker, with the files of the volumes of m2 stored or not.
VmHashes == {"m2", "f2"}

NextVm ==
    \/ \E h \in VmHashes : AdmitUnchecked(h)
    \/ \E volume \in get_volume_refs(InstanceContent) : InsertVolumeRef(volume)
    \/ \E p \in pending_messages :
         \E a \in {HandlerAnswer(p.item_hash), RetryLater} :
            HandlePendingMessage(p, a)

SpecVm == Init /\ [][NextVm]_vars

\* The outgoing path and its inverse.
NextCodec ==
    \/ \E l \in ListsUpTo(MaxMsgs) :
         \E t \in Thresholds(SerializedSize(l)) : Encode(l, t)
    \/ \E a \in StorageAnswers : Decode(a)

SpecCodec == Init /\ [][NextCodec]_vars

\* Two txs that point to the same stored bundle, and the messages of the
\* bundle going through the pending-message job.
NextDup ==
    \/ \E t \in {"t2", "t4"} : IncomingChaindata(t)
    \/ \E t \in {"t2", "t4"}, a \in StorageAnswers : HandlePendingTx(t, a)
    \/ \E p \in pending_messages :
            HandlePendingMessage(p, PermanentResult[p.item_hash])

SpecDup == Init /\ [][NextDup]_vars

\* Verification: two messages of a dishonest peer, an on-chain bundle and a
\* smart-contract event, through the two jobs.
NextVerify ==
    \/ \E h \in DishonestHashes : P2PAdmit(h)
    \/ \E t \in {"t1", "t5"} : IncomingChaindata(t)
    \/ \E t \in {"t1", "t5"}, a \in StorageAnswers : HandlePendingTx(t, a)
    \/ \E p \in pending_messages :
         \E a \in {HandlerAnswer(p.item_hash), RetryLater} :
            HandlePendingMessage(p, a)

SpecVerify == Init /\ [][NextVerify]_vars

\* The pending-message job on the messages peers sent before its first scan
\* (retry_messages_task starts with a sleep).
JobHashes == {"m1", "m2", "b1"}

NextJob ==
    \/ \E h \in JobHashes : job.run = 0 /\ P2PAdmit(h)
    \/ JobStart
    \/ JobCount
    \/ JobScan
    \/ JobWait
    \/ JobSync
    \/ \E t \in job.tasks : TaskStart(t)
    \/ \E t \in job.tasks :
         \E a \in {HandlerAnswer(t.pending.item_hash), UnexpectedException} :
            TaskFinish(t, a)
    \/ JobException

SpecJob == Init /\ [][NextJob]_vars

\* The same job under the scheduling of asyncio: a task that is inside
\* incoming() ends, by a return or by an exception, and a task that waits for
\* a semaphore is woken when a permit is given back (the waiters of an asyncio
\* semaphore are served first come, first served).
StartOf(item_hash, r) ==
    \E t \in job.tasks :
        t.pending.item_hash = item_hash /\ t.run = r /\ TaskStart(t)
FinishOf(item_hash, r) ==
    \E t \in job.tasks :
        /\ t.pending.item_hash = item_hash /\ t.run = r
        /\ \E a \in {HandlerAnswer(t.pending.item_hash), UnexpectedException} :
              TaskFinish(t, a)

\* The job while a message arrives at any time and the handlers may ask for
\* a retry: the scans meet entries with different retries counters.
SchedHashes == {"m1", "m2", "b1"}
NextSched ==
    \/ \E h \in SchedHashes : (h # "m2" => job.run = 0) /\ P2PAdmit(h)
    \/ JobStart
    \/ JobCount
    \/ JobScan
    \/ JobWait
    \/ JobSync
    \/ \E t \in job.tasks : TaskStart(t)
    \/ \E t \in job.tasks :
         \E a \in {HandlerAnswer(t.pending.item_hash), RetryLater} :
            TaskFinish(t, a)

SpecSched == Init /\ [][NextSched]_vars

\* The job on the entries of two txs that carry the same messages at
\* different heights.
SweepTxHashes == {"t1", "t2"}
NextSweep ==
    \/ \E t \in SweepTxHashes : job.run = 0 /\ IncomingChaindata(t)
    \/ \E t \in SweepTxHashes : job.run = 0 /\ HandlePendingTx(t, "ok")
    \/ JobStart
    \/ JobCount
    \/ JobScan
    \/ JobWait
    \/ JobSync
    \/ \E t \in job.tasks : TaskStart(t)
    \/ \E t \in job.tasks :
         \E a \in {HandlerAnswer(t.pending.item_hash), UnexpectedException} :
            TaskFinish(t, a)

SpecSweep == Init /\ [][NextSweep]_vars

\* The job on two posts, which share the one permit of their semaphore, and
\* an instance.
PermitHashes == {"m1", "b1", "m2"}
NextPermits ==
    \/ \E h \in PermitHashes : job.run = 0 /\ P2PAdmit(h)
    \/ JobStart
    \/ JobCount
    \/ JobScan
    \/ JobWait
    \/ JobSync
    \/ \E t \in job.tasks : TaskStart(t)
    \/ \E t \in job.tasks :
         \E a \in {HandlerAnswer(t.pending.item_hash), UnexpectedException} :
            TaskFinish(t, a)

SpecPermits ==
    /\ Init /\ [][NextPermits]_vars
    /\ \A item_hash \in PermitHashes, r \in 1..MaxRuns :
          SF_vars(StartOf(item_hash, r)) /\ WF_vars(FinishOf(item_hash, r))

\* Calls of get_tx_messages.
NextDecode ==
    \E d \in DOMAIN DecodeTx, seen \in SeenSets, a \in StorageAnswers :
        GetTxMessages(d, seen, a)

SpecDecode == Init /\ [][NextDecode]_vars

\* Calls of get_executable_message.
NextPrices ==
    \E session \in Sessions, item_hash_str \in ItemHashStrings :
        GetExecutableMessage(session, item_hash_str)

SpecPrices == Init /\ [][NextPrices]_vars

(***************************************************************************)
(* Properties.                                                             *)
(***************************************************************************)
PendingRowsOf(db, item_hash) ==
    {p \in db.pending_messages : p.item_hash = item_hash}

\* C1: in every reachable state, for every message and every two reception
\* times, two calls of add_pending_message with the same message dict and
\* origin leave exactly one PendingMessage row for the message, the second
\* call returns the reception_time the first call returned, and that is the
\* time given to the first call when no row existed before it.
AdmissionIdempotent ==
    \A h \in ItemHashes : \A time1, time2 \in 0..MaxTime :
        LET first == add_pending_message(DB, WireDict(h), time1, P2P, None, TRUE)
            second == add_pending_message(first.db, WireDict(h), time2, P2P,
                                          None, TRUE)
        IN /\ Cardinality(PendingRowsOf(second.db, h)) = 1
           /\ second.ret.reception_time = first.ret.reception_time
           /\ PendingRowsOf(DB, h) = {} => first.ret.reception_time = time1

\* C1, witness: a peer's call at a later time returned the row of an earlier
\* call, and that message has one row.
AdmittedTwice ==
    /\ ret.reception_time < ret.call_time
    /\ ret.call_time = now
    /\ \E p \in pending_messages :
          /\ p.reception_time = ret.reception_time
          /\ PendingRowsOf(DB, p.item_hash) = {p}

\* C2: a message admitted via pub/sub (only that admission makes a row with
\* no tx_hash) and via a confirming tx T, and still pending, has exactly one
\* PendingMessage row and one MessageConfirmation row for T.
DuplicateIngressCollapses ==
    \A h \in ItemHashes :
        (/\ \E p \in pending_messages : p.item_hash = h /\ p.tx_hash = None
         /\ run.status = "ok"
         /\ \E i \in 1..Len(run.admitted) : run.admitted[i] = h
         /\ get_message_status(DB, h) = "pending")
        => /\ Cardinality(PendingRowsOf(DB, h)) = 1
           /\ <<h, run.tx_hash>> \in message_confirmations

\* The item hashes of the candidate messages a tx carries: inline, or in the
\* blob its content hash resolves to (at the top level or in the envelope).
Carried(tx_hash) ==
    LET tx == ChainTx[tx_hash]
        blob == storage[tx.content]
    IN IF tx.protocol = ON_CHAIN_SYNC THEN ItemHashesOf(tx.content.messages)
       ELSE IF "messages" \in DOMAIN blob THEN ItemHashesOf(blob.messages)
       ELSE ItemHashesOf(blob.content.messages)

\* C3: in every step that deletes a PendingTx row, every candidate message
\* the tx carries has been passed to add_pending_message by the worker (in
\* this run or, for a bundle seen before, in the run that fetched it).
DeletedOnlyAfterAdmission ==
    [][\A t \in pending_txs \ pending_txs' : Carried(t) \subseteq passed']_vars

\* C3, witness: the fetch for t2 failed, t2 was redelivered and its PendingTx
\* row is deleted.
RedeliveredAndDeleted ==
    /\ "t2" \in raised
    /\ "t2" \in chain_txs \ pending_txs
    /\ Carried("t2") \subseteq passed

\* The tables that hold item_hash.
Holders(item_hash) ==
    (IF PendingRowsOf(DB, item_hash) # {} THEN {"pending"} ELSE {})
    \cup (IF item_hash \in messages THEN {"processed"} ELSE {})
    \cup (IF \E r \in rejected_messages : r.item_hash = item_hash
          THEN {"rejected"} ELSE {})
    \cup (IF \E r \in forgotten_messages : r.item_hash = item_hash
          THEN {"forgotten"} ELSE {})

Known(item_hash) ==
    Holders(item_hash) # {} \/ StatusRows(DB, item_hash) # {}

\* C4: every item_hash present in the system is held by exactly one of
\* pending_messages, messages, rejected_messages and forgotten_messages, the
\* one that matches its status.
StatusUniqueness ==
    \A h \in ItemHashes :
        Known(h) => Holders(h) = {get_message_status(DB, h)}

ErrorCodeOf(rows, item_hash) ==
    (CHOOSE r \in rows : r.item_hash = item_hash).error_code

\* The step of the retry bound: no PendingMessage row has been retried more
\* than max_retries times, and the processing of a row that has been retried
\* max_retries times ends the row: none with its logical key is left, a
\* message that was pending is not pending any more, and when its handler did
\* not reject it for a reason of its own it is rejected with
\* EXCEEDED_AMT_OF_RETRIES.
RetryStep ==
    /\ \A q \in pending_messages' : q.retries <= MaxRetries
    /\ \A p \in pending_messages \ pending_messages' :
         p.retries = MaxRetries =>
           /\ \A q \in pending_messages' :
                 get_pending_message_id(q) # get_pending_message_id(p)
           /\ get_message_status(DB, p.item_hash) = "pending" =>
                 /\ get_message_status(DB', p.item_hash)
                        \in {"processed", "rejected"}
                 /\ (/\ get_message_status(DB', p.item_hash) = "rejected"
                     /\ MissingVolumes(DB, p) = {})
                    => ErrorCodeOf(rejected_messages', p.item_hash)
                           = "EXCEEDED_AMT_OF_RETRIES"

ConfirmationMonotonic ==
    [][\A c \in message_confirmations :
          c \notin message_confirmations'
              => c[2] \in chain_txs /\ c[2] \notin chain_txs']_vars

\* C7, witness: a forget message aimed at a confirmed message was handled and
\* is retried, and the confirmation is there.
ForgetOfConfirmed ==
    /\ <<"m1", "t1">> \in message_confirmations
    /\ \E p \in pending_messages : p.item_hash = "f1" /\ p.retries > 0
    /\ get_message_status(DB, "m1") = "processed"

\* C8: get_tx_messages, with the storage service answering, on the tx that
\* carries the output of get_chaindata returns the messages given to
\* get_chaindata (in wire form), in the same order, for every threshold.
EnvelopeRoundTrip ==
    (codec.pc = "decoded" /\ codec.avail = "ok")
        => /\ codec.result.status = "ok"
           /\ codec.result.messages = SeqMap(WireDict, codec.msgs)

\* C9: get_chaindata emits an off-chain envelope whose content is the hash
\* the storage service returned exactly when the length of the on-chain text
\* exceeds bulk_threshold; otherwise it emits the on-chain envelope with the
\* messages inline and does not call the storage service.
BulkEncoderThreshold ==
    codec.pc # "idle" =>
        IF SerializedSize(codec.msgs) > codec.bulk_threshold
        THEN /\ codec.protocol = OFF_CHAIN_SYNC
             /\ codec.added
             /\ codec.content \in DOMAIN storage
             /\ storage[codec.content]
                    = OnChainEnvelope(SeqMap(WireDict, codec.msgs))
        ELSE /\ codec.protocol = ON_CHAIN_SYNC
             /\ codec.content = [messages |-> SeqMap(WireDict, codec.msgs)]
             /\ ~codec.added
             /\ storage = InitialStorage

\* C9, witness: a text of exactly bulk_threshold characters went inline.
EncodedAtThreshold ==
    /\ codec.pc = "encoded"
    /\ Len(codec.msgs) = MaxMsgs
    /\ SerializedSize(codec.msgs) = codec.bulk_threshold
    /\ codec.protocol = ON_CHAIN_SYNC

\* C10: a run of handle_pending_tx on t3 (off-chain protocol, content H, the
\* storage service resolving H to the envelope with messages [m1, m2])
\* admits m1 and m2 in that order with tx_hash t3 and deletes the PendingTx
\* row.
OffChainIndirection ==
    (run.tx_hash = "t3" /\ run.status \notin {"absent", "ContentCurrentlyUnavailable"})
        => /\ run.status = "ok"
           /\ run.admitted = <<"m1", "m2">>
           /\ \A h \in {"m1", "m2"} :
                 \E p \in pending_messages : p.item_hash = h /\ p.tx_hash = "t3"
           /\ "t3" \notin pending_txs

\* The transaction and the pair (protocol, version) of the last call.
CallTx == DecodeTx[call.tx]
KnownProtocols == {<<ON_CHAIN_SYNC, 1>>, <<OFF_CHAIN_SYNC, 1>>, <<SMART_CONTRACT, 1>>}
CallProtocol == <<CallTx.protocol, CallTx.protocol_version>>

\* C14: get_tx_messages on a tx whose (protocol, protocol_version) is none of
\* (on-chain, 1), (off-chain, 1), (smart-contract, 1) raises InvalidContent,
\* does not fetch from storage and leaves seen_ids as the caller gave it.
UnknownProtocolInvalid ==
    (call.tx # None /\ CallProtocol \notin KnownProtocols)
        => /\ call.result.status = "InvalidContent"
           /\ call.result.messages = <<>>
           /\ ~call.result.fetched
           /\ ~call.result.pinned
           /\ call.result.seen_ids = call.seen

\* C14 witness: an off-chain tx of version 2, its hash neither seen nor
\* unavailable, was refused.
UnknownVersionRefused ==
    /\ call.tx = "d13"
    /\ call.seen = {}
    /\ call.avail = "ok"
    /\ call.result.status = "InvalidContent"

\* C15: for a smart-contract tx of version 1 whose content parses and whose
\* msgtype is not STORE_IPFS, get_tx_messages raises InvalidContent and yields
\* no message.
SmartContractOtherMsgtype ==
    (/\ call.tx # None
     /\ CallProtocol = <<SMART_CONTRACT, 1>>
     /\ PayloadFields \subseteq DOMAIN CallTx.content
     /\ CallTx.content["msgtype"] # "STORE_IPFS")
        => /\ call.result.status = "InvalidContent"
           /\ call.result.messages = <<>>

\* C16: for an on-chain tx of version 1, get_tx_messages returns the messages
\* list of the content unchanged, and raises InvalidContent when messages is
\* absent or is not a list.
OnChainMessages ==
    (call.tx # None /\ CallProtocol = <<ON_CHAIN_SYNC, 1>>)
        => IF HasMessages(CallTx.content) /\ IsList(CallTx.content["messages"])
           THEN /\ call.result.status = "ok"
                /\ call.result.messages = CallTx.content["messages"]
           ELSE call.result.status = "InvalidContent"

\* A delivery of tx_hash whose PendingTx row is there, with storage answer a.
Delivered(tx_hash, a) == tx_hash \in pending_txs /\ HandlePendingTx(tx_hash, a)

\* One delivery of an off-chain tx whose content hash is in seen_ids.
SuppressedStep ==
    \A t \in TxHashes, a \in StorageAnswers :
        (/\ Delivered(t, a)
         /\ ChainTx[t].protocol = OFF_CHAIN_SYNC
         /\ ChainTx[t].content \in seen_ids)
            => /\ run' = [tx_hash |-> t, status |-> "ok", fetched |-> FALSE,
                          admitted |-> <<>>]
               /\ pending_messages' = pending_messages
               /\ message_status' = message_status
               /\ message_confirmations' = message_confirmations
               /\ passed' = passed
               /\ seen_ids' = seen_ids
               /\ pending_txs' = pending_txs \ {t}

\* C17: an off-chain tx whose content hash is already in seen_ids yields an
\* empty list without a fetch; handle_pending_tx then admits nothing, writes no
\* confirmation, leaves the confirmations there are, and deletes the PendingTx
\* row.
DuplicateSuppressed == [][SuppressedStep]_vars

\* C17 witness: t4 was suppressed after the bundle of t2 was admitted and m1
\* confirmed by t2; no confirmation by t4 exists.
SuppressedAfterConfirmation ==
    /\ run = [tx_hash |-> "t4", status |-> "ok", fetched |-> FALSE,
              admitted |-> <<>>]
    /\ "t4" \in chain_txs \ pending_txs
    /\ <<"m1", "t2">> \in message_confirmations
    /\ \A c \in message_confirmations : c[2] # "t4"
    /\ \A p \in pending_messages : p.tx_hash # "t4"

\* One delivery of a tx: the row is deleted exactly when get_tx_messages
\* returned; when the content was unavailable nothing is written, and the next
\* delivery fetches again.
DeletionStep ==
    \A t \in TxHashes, a \in StorageAnswers :
        Delivered(t, a)
            => /\ (run'.status = "ok") <=> (t \notin pending_txs')
               /\ (run'.status = "ok" /\ run'.admitted = <<>>)
                      => pending_messages' = pending_messages
               /\ (a = "unavailable" /\ run'.fetched)
                      => /\ run'.status = "ContentCurrentlyUnavailable"
                         /\ t \in pending_txs'
                         /\ pending_messages' = pending_messages
                         /\ message_status' = message_status
                         /\ passed' = passed
                         /\ get_tx_messages(ChainTx[t], seen_ids', storage',
                                            "ok").fetched

\* C18: handle_pending_tx deletes the PendingTx row exactly when
\* get_tx_messages produced a list, the empty list included; when the content
\* is unavailable the row stays, nothing is admitted, and a redelivery expands
\* the tx again.
PendingTxDeletionRule == [][DeletionStep]_vars

\* C18 witness: t2 was once unavailable and, redelivered, was expanded and
\* deleted; t4 then gave the empty list and was deleted too.
DeletedAfterEmptyList ==
    /\ "t2" \in raised
    /\ "t2" \in chain_txs \ pending_txs
    /\ {"m1", "m2"} \subseteq passed
    /\ run.tx_hash = "t4" /\ run.status = "ok" /\ run.admitted = <<>>
    /\ "t4" \in chain_txs \ pending_txs

\* The store message get_tx_messages synthesizes for the event t5.
SmartContractHash == get_sha256(StoreContentJson(ChainTx["t5"].content))

\* A pending record with no check_message entry.
WithoutCheckMessage(pending) ==
    [k \in (DOMAIN pending) \ {"check_message"} |-> pending[k]]

\* incoming() has the same outcome on the two records.
SameOutcome(a, b) ==
    /\ a.status = b.status
    /\ a.db.message_status = b.db.message_status
    /\ a.db.messages = b.db.messages
    /\ a.db.rejected_messages = b.db.rejected_messages

\* C19: a candidate of a tx is admitted with check_message = (protocol is not
\* smart-contract); a message that is checked and has a bad signature is never
\* processed and is rejected with INVALID_SIGNATURE only; a message of a
\* smart-contract event is never rejected for its signature; a pending record
\* with no check_message entry is handled as one with check_message = true.
SignaturePolicy ==
    /\ \A p \in pending_messages :
          p.tx_hash # None
              => p.check_message = (ChainTx[p.tx_hash].protocol # SMART_CONTRACT)
    /\ "b1" \notin messages
    /\ get_message_status(DB, "b1") \in {None, "pending", "rejected"}
    /\ \A r \in rejected_messages :
          /\ r.item_hash = "b1" => r.error_code = "INVALID_SIGNATURE"
          /\ r.item_hash = SmartContractHash => r.error_code # "INVALID_SIGNATURE"
    /\ \A p \in pending_messages :
          \A a \in {HandlerAnswer(p.item_hash), RetryLater} :
             SameOutcome(incoming(DB, WithoutCheckMessage(p), a),
                         incoming(DB, [p EXCEPT !.check_message = TRUE], a))

\* C19 witness: b1 was rejected for its signature, and the message of the
\* smart-contract event, whose signature is None, was processed and confirmed
\* by t5, while m1 of the on-chain bundle waits with check_message = true.
SignaturesChecked ==
    /\ [item_hash |-> "b1", error_code |-> "INVALID_SIGNATURE", errors |-> {},
        traceback |-> None] \in rejected_messages
    /\ get_message_status(DB, SmartContractHash) = "processed"
    /\ <<SmartContractHash, "t5">> \in message_confirmations
    /\ \E p \in pending_messages :
          p.item_hash = "m1" /\ p.tx_hash = "t1" /\ p.check_message

\* C20: every pending message with fetched = true has an item_content whose
\* sha256 is its item_hash, and every inline row of `messages` has an
\* item_content whose sha256 is its item_hash.
ContentHashBinding ==
    /\ \A p \in pending_messages :
          p.fetched => /\ p.item_content # None
                       /\ get_sha256(p.item_content) = p.item_hash
    /\ \A h \in messages \cap (ItemHashes \cup DishonestHashes) :
          MessageDb(h).item_type = "inline"
              => get_sha256(MessageDb(h).item_content) = h

\* The tasks inside incoming().
Running == {t \in job.tasks : t.state = "running"}

\* C11: no two tasks are processing pending messages with the same logical
\* key at the same time, whatever the scans, completions, failures and
\* restarts of process_pending_messages.
InFlightExclusion ==
    \A t, u \in Running :
        get_pending_message_id(t.pending) = get_pending_message_id(u.pending)
            => t = u

\* C12: the number of tasks inside incoming() for a message type is at most
\* the size of the semaphore of that type.
PerTypeBound ==
    \A message_type \in MessageTypes :
        Cardinality({t \in Running : t.pending.type = message_type})
            <= SemValue(message_type)

\* C13: the number of tasks created and not yet collected is at most
\* max_concurrency.
GlobalCeiling == Cardinality(job.tasks) <= max_concurrent_tasks

\* C27: for an accepted smart-contract tx of version 1, get_tx_messages
\* returns exactly one message: a store message, inline, with no signature,
\* sent by the addr of the payload on the chain of the tx at the time of the
\* tx, whose item_content is the JSON of the store content and whose item_hash
\* is the sha256 of that item_content.
SmartContractSynthesis ==
    (/\ call.tx # None
     /\ CallProtocol = <<SMART_CONTRACT, 1>>
     /\ PayloadFields \subseteq DOMAIN CallTx.content
     /\ CallTx.content["msgtype"] = "STORE_IPFS")
        => /\ call.result.status = "ok"
           /\ Len(call.result.messages) = 1
           /\ LET message == call.result.messages[1]
              IN /\ message["type"] = "store"
                 /\ message["item_type"] = "inline"
                 /\ message["signature"] = None
                 /\ message["sender"] = CallTx.content["addr"]
                 /\ message["time"] = timestamp(CallTx.datetime)
                 /\ message["item_content"] = StoreContentJson(CallTx.content)
                 /\ message["item_hash"] = get_sha256(message["item_content"])
                 /\ message["chain"] = CallTx.chain

\* A delivery of a tx hash that has no PendingTx row.
AbsentDelivered(t, a) ==
    /\ t \in chain_txs \ pending_txs
    /\ HandlePendingTx(t, a)

\* C28: a delivery of a tx hash with no PendingTx row returns without calling
\* the chain data service (nothing is fetched), admits no message, leaves
\* seen_ids and every table as they were; the row of an expanded tx does not
\* come back, so the tx is expanded at most once after its deletion.
AbsentPendingTxNoOp ==
    [][\A t \in TxHashes :
          /\ \A a \in StorageAnswers :
                AbsentDelivered(t, a)
                    => /\ run'.status = "absent"
                       /\ ~run'.fetched
                       /\ run'.admitted = <<>>
                       /\ UNCHANGED <<dbvars, seen_ids, passed, raised, storage>>
          /\ t \in chain_txs \ pending_txs => t \notin pending_txs']_vars

\* C28 witness: t1 was expanded and its row deleted, its messages are pending,
\* and a second delivery of t1 found no row.
AbsentAfterExpansion ==
    /\ "t1" \in chain_txs \ pending_txs
    /\ "t1" \notin raised
    /\ run.tx_hash = "t1" /\ run.status = "absent"
    /\ \E pending \in pending_messages : pending.tx_hash = "t1"

\* The changes of status of the lifecycle: a message enters as pending (or
\* as rejected when the candidate is refused at admission), a pending message
\* becomes processed or rejected, a processed message becomes forgotten.
LifecycleTransitions ==
    {<<None, "pending">>, <<None, "rejected">>, <<"pending", "processed">>,
     <<"pending", "rejected">>, <<"processed", "forgotten">>}

PermanentFailure(p, a) ==
    /\ HandlePendingMessage(p, a)
    /\ Outcome(DB, p, a) \in {"FAILED_PERMANENTLY", "INVALID_MESSAGE"}

\* C25: whenever a pending entry leaves the queue because of a permanent
\* failure, the case of an entry whose message cannot be parsed included, a
\* rejected_messages row of its item_hash exists afterwards.
PermanentErrorsRejected ==
    [][\A p \in pending_messages :
         \A a \in {HandlerAnswer(p.item_hash), RetryLater} :
            PermanentFailure(p, a)
                => /\ p \notin pending_messages'
                   /\ \E r \in rejected_messages' : r.item_hash = p.item_hash]_vars

\* C26: a task holds at most one permit, that of the semaphore of the type
\* of its own message, and holds it exactly while it is inside incoming().
OnePermitPerWorker ==
    \A t \in job.tasks :
        /\ Len(t.permits) <= 1
        /\ \A i \in 1..Len(t.permits) :
               t.permits[i] = [run |-> t.run, message_type |-> t.pending.type]
        /\ (t.permits # <<>>) <=> (t.state = "running")

\* C26 witness: the tasks of the post m1 and of the instance m2 are inside
\* incoming() at the same time, each with the permit of its own type.
TwoWorkersOnePermitEach ==
    \E t, u \in Running :
        /\ t.pending.item_hash = "m1" /\ u.pending.item_hash = "m2"
        /\ t.permits = <<[run |-> t.run, message_type |-> "post"]>>
        /\ u.permits = <<[run |-> u.run, message_type |-> "instance"]>>

\* The task t is over in this step: it leaves the tasks of the job, collected
\* by process_message_job_results or awaited by nobody.
TaskOver(t) ==
    /\ t \in job.tasks
    /\ t.state \in {"running", "done"}
    /\ \A u \in job'.tasks : u.run = t.run => u.pending # t.pending

\* The answer of the type handler to the task t.
AnswerOf(t) ==
    IF t.state = "done" THEN t.answer ELSE HandlerAnswer(t.pending.item_hash)

\* C29: once a message task is over, incoming() having returned an outcome,
\* its PendingMessage row is deleted if the outcome is not RETRYING_LATER, and
\* on RETRYING_LATER the row is still there, its retries counter incremented.
PendingRowDisposal ==
    [][\A t \in job.tasks :
          (TaskOver(t) /\ AnswerOf(t) # UnexpectedException)
              => IF Outcome(DB, t.pending, AnswerOf(t)) = "RETRYING_LATER"
                 THEN /\ t.pending \notin pending_messages'
                      /\ [t.pending EXCEPT !.retries = @ + 1] \in pending_messages'
                 ELSE t.pending \notin pending_messages']_vars

\* The processing of the pending entry p ended in RETRYING_LATER: the entry
\* is rescheduled, its retries counter incremented.
RetriedLater(p) ==
    /\ p \notin pending_messages'
    /\ [p EXCEPT !.retries = @ + 1] \in pending_messages'

\* C30: a processing that ends in RETRYING_LATER creates and changes no row
\* of messages, rejected_messages, forgotten_messages, message_confirmations
\* or message_status (the status stays pending); only the retries counter of
\* the entry is incremented.
TransientErrorsFrame ==
    [][\A p \in pending_messages :
          RetriedLater(p)
              => /\ UNCHANGED <<messages, rejected_messages, forgotten_messages,
                                message_confirmations, message_status, vms>>
                 /\ get_message_status(DB', p.item_hash)
                        = get_message_status(DB, p.item_hash)
                 /\ pending_messages' =
                      (pending_messages \ {p})
                          \cup {[p EXCEPT !.retries = @ + 1]}]_vars

\* C30 witness: the forget f1 was retried, its target m1 being confirmed by a
\* tx, and nothing else moved: f1 is pending, m1 processed and not forgotten.
RetriedForgetLeftNoTrace ==
    /\ \E p \in pending_messages : p.item_hash = "f1" /\ p.retries = 1
    /\ get_message_status(DB, "f1") = "pending"
    /\ get_message_status(DB, "m1") = "processed"
    /\ \E c \in message_confirmations : c[1] = "m1"
    /\ forgotten_messages = {}
    /\ rejected_messages = {}

\* One pass of the pipeline on the pending entry p, nothing transient in the
\* way, p being the entry of a message whose status is pending.
PipelinePass(p) ==
    /\ get_message_status(DB, p.item_hash) = "pending"
    /\ HandlePendingMessage(p, HandlerAnswer(p.item_hash))

\* The refs p declares (immutable volumes, parent of the rootfs) of which no
\* file is stored.
Unstored(p) ==
    {volume.ref : volume \in
        {v \in get_volume_refs(ParseContent(p.item_content)) :
            Reversed(v.ref) \notin stored_files}}

\* The rows of item_hash in a table.
RowsOf(rows, item_hash) == {r \in rows : r.item_hash = item_hash}

\* C21: a pending program or instance message with a declared volume ref that
\* resolves to no stored file is rejected by one pass of the pipeline: no
\* instance row and no messages row, status rejected, and the rejected_messages
\* row has error_code VM_VOLUME_NOT_FOUND, the set of the missing refs as
\* details.errors and no traceback.
MissingVolumeRejection ==
    [][\A p \in pending_messages :
          (p.type \in VmTypes /\ Unstored(p) # {} /\ PipelinePass(p))
              => /\ RowsOf(vms'.instances, p.item_hash) = {}
                 /\ p.item_hash \notin messages'
                 /\ get_message_status(DB', p.item_hash) = "rejected"
                 /\ RowsOf(rejected_messages', p.item_hash) =
                        {[item_hash |-> p.item_hash,
                          error_code |-> "VM_VOLUME_NOT_FOUND",
                          errors |-> Unstored(p), traceback |-> None]}]_vars

\* C21 witness: m2 was rejected with no file stored, both refs reported.
RejectedForBothVolumes ==
    /\ get_message_status(DB, "m2") = "rejected"
    /\ vms.instances = {}
    /\ stored_files = {}
    /\ RowsOf(rejected_messages, "m2") =
          {[item_hash |-> "m2", error_code |-> "VM_VOLUME_NOT_FOUND",
            errors |-> {"549e", "5f31"}, traceback |-> None]}

\* The number of volumes of a kind.
VolumesOfKind(volumes, kind) ==
    Cardinality({i \in 1..Len(volumes) : volumes[i].kind = kind})

\* C22: a pending instance message, fetched and with check_message = false,
\* whose rootfs parent and immutable volumes all resolve to stored files is
\* processed by one pass of the pipeline: a messages row, an instance row
\* owned by the sender with all the declared volumes, a vm_version row whose
\* current_version is the item_hash of the message, and status processed.
InstanceHappyPath ==
    [][\A p \in pending_messages :
          (/\ p.type = "instance" /\ p.fetched /\ ~p.check_message
           /\ Unstored(p) = {}
           /\ PipelinePass(p))
              => /\ p.item_hash \in messages'
                 /\ get_message_status(DB', p.item_hash) = "processed"
                 /\ RowsOf(rejected_messages', p.item_hash) = {}
                 /\ \E i \in vms'.instances :
                       /\ RowsOf(vms'.instances, p.item_hash) = {i}
                       /\ i.owner = p.sender
                       /\ i.volumes = ParseContent(p.item_content).volumes
                 /\ {v \in vms'.vm_versions : v.vm_hash = p.item_hash} =
                       {[vm_hash |-> p.item_hash, owner |-> p.sender,
                         current_version |-> p.item_hash]}]_vars

\* C22 witness: m2 is processed and its instance row has the five volumes,
\* one ephemeral, three persistent and one immutable.
InstanceCreated ==
    /\ get_message_status(DB, "m2") = "processed"
    /\ "m2" \in messages
    /\ \E i \in vms.instances :
          /\ i.item_hash = "m2" /\ i.owner = "alice"
          /\ Len(i.volumes) = 5
          /\ VolumesOfKind(i.volumes, "ephemeral") = 1
          /\ VolumesOfKind(i.volumes, "persistent") = 3
          /\ VolumesOfKind(i.volumes, "immutable") = 1
    /\ \E v \in vms.vm_versions : v.vm_hash = "m2" /\ v.current_version = "m2"

Requested == request.item_hash_str # None
RequestedStatus == get_message_status(request.session, request.item_hash_str)

\* C39: every call of get_executable_message either returns the message or
\* raises an HTTP error; it never fails its internal assertion on the status,
\* whatever value of MessageStatus the status row holds.
ExecutableMessageOrHttpError ==
    Requested =>
        /\ request.result.raises \in DOMAIN HTTPStatus \cup {None}
        /\ request.result.raises # "AssertionError"

\* The rest of C39: the message is returned only when it is processed, stored
\* and executable, and each other case has the status code the claim gives.
ExecutableMessageAnswers ==
    Requested =>
        LET h == request.item_hash_str
            res == request.result
            code == HTTPStatus[res.raises]
        IN /\ res.raises = None =>
                /\ RequestedStatus = "processed"
                /\ h \in request.session.messages
                /\ res.message.type \in VmTypes
                /\ res.message.item_hash = h
           /\ ~IsItemHash(h) => code = 400
           /\ (IsItemHash(h) /\ RequestedStatus = None) => code = 404
           /\ (IsItemHash(h) /\ RequestedStatus = "pending") => code = 102
           /\ (IsItemHash(h) /\ RequestedStatus = "rejected") => code = 404
           /\ (IsItemHash(h) /\ RequestedStatus = "forgotten") => code = 410
           /\ (IsItemHash(h) /\ RequestedStatus = "processed") =>
                /\ h \notin request.session.messages => code = 404
                /\ (h \in request.session.messages /\ MsgType[h] \notin VmTypes)
                       => code = 400
                /\ (h \in request.session.messages /\ MsgType[h] \in VmTypes)
                       => res.raises = None

\* C33: the duplicate-suppression set seen_ids is a bounded window: it never
\* holds more entries than its configured size, older entries being evicted.
SeenIdsBounded == Cardinality(seen_ids) <= SeenIdsWindow

\* C36: a malformed candidate does not block its batch: when handle_pending_tx
\* expands t6, whose first candidate is malformed, add_pending_message returns
\* null for that candidate and records its rejection with INVALID_FORMAT,
\* the other candidate (m1) is admitted with t6 as its tx, and the PendingTx
\* row of t6 is deleted.
MalformedCandidateSkipped ==
    [][("t6" \in pending_txs /\ MixedHash \notin seen_ids
            /\ HandlePendingTx("t6", "ok"))
        => /\ add_pending_message(DB, MalformedDict, now, DefaultOrigin, "t6",
                                  TRUE).ret = None
           /\ \E r \in rejected_messages' :
                 r.item_hash = "w1" /\ r.error_code = "INVALID_FORMAT"
           /\ get_message_status(DB', "w1") = "rejected"
           /\ \A p \in pending_messages' : p.item_hash # "w1"
           /\ \E p \in pending_messages' :
                 p.item_hash = "m1" /\ p.tx_hash = "t6"
           /\ get_message_status(DB', "m1") # None
           /\ "t6" \notin pending_txs']_vars

MalformedCandidateRejected ==
    /\ run.tx_hash = "t6"
    /\ run.status = "ok"
    /\ "t6" \in chain_txs /\ "t6" \notin pending_txs
    /\ \E r \in rejected_messages : r.item_hash = "w1"
    /\ \E p \in pending_messages : p.item_hash = "m1" /\ p.tx_hash = "t6"

\* C35: a call of get_tx_messages on an off-chain tx that fails ends in
\* InvalidContent when the blob has no messages field and in
\* ContentCurrentlyUnavailable when the blob cannot be fetched; no other
\* exception leaves the call, and a call that fails writes no StoredFile and
\* no tx_file_pin row.
OffChainFailuresClassified ==
    (/\ call.tx # None
     /\ DecodeTx[call.tx].protocol = OFF_CHAIN_SYNC
     /\ DecodeTx[call.tx].protocol_version = 1)
        => LET file_hash == DecodeTx[call.tx].content
               fetched == call.avail = "ok" /\ file_hash \in DOMAIN storage
           IN /\ call.result.status
                    \in {"ok", "InvalidContent", "ContentCurrentlyUnavailable"}
              /\ (call.result.status = "ok" /\ call.result.fetched)
                    => fetched /\ HasMessages(storage[file_hash])
              /\ (file_hash \notin call.seen /\ fetched
                      /\ ~HasMessages(storage[file_hash]))
                    => call.result.status = "InvalidContent"
              /\ (file_hash \notin call.seen /\ ~fetched)
                    => call.result.status = "ContentCurrentlyUnavailable"
              /\ call.result.status # "ok" => ~call.result.pinned

\* The logical keys of a set of tasks.
KeysOf(tasks) == {get_pending_message_id(t.pending) : t \in tasks}

\* C40: each time process_pending_messages waits for tasks or has finished a
\* scan, retry_messages_job_tasks is the number of message tasks that were
\* created and are not collected, message_jobs[T] the number of those of type
\* T, no counter is negative, and processing_messages holds the logical keys
\* of those tasks, plus the key of the row being scheduled when the wait is the
\* one at the ceiling.
TaskAccounting ==
    job.pc \in {"wait", "sync"} =>
        /\ job.shared_stats.retry_messages_job_tasks = Cardinality(job.tasks)
        /\ \A T \in MessageTypes :
              /\ job.shared_stats.message_jobs[T]
                    = Cardinality({t \in job.tasks : t.pending.type = T})
              /\ job.shared_stats.message_jobs[T] >= 0
        /\ job.shared_stats.retry_messages_job_tasks >= 0
        /\ job.processing_messages =
              KeysOf(job.tasks)
                 \cup (IF job.pc = "wait"
                       THEN {get_pending_message_id(Head(job.cursor))} ELSE {})

\* process_message_job_results runs in this step: the finished tasks of the
\* running call are collected.
Collecting ==
    /\ job.pc \in {"wait", "sync"}
    /\ job'.pc \in {"scan", "count"}

\* C31: when a task that ended on an unexpected exception is collected, the
\* exception is contained: the entry of its message stays pending with its
\* retries counter advanced (or is rejected once the maximum is reached), its
\* key leaves processing_messages, and the other tasks of the call stay as
\* they are.
TaskExceptionIsRetry ==
    [][\A t \in Finished(job.run) :
          (Collecting /\ t.answer = UnexpectedException
                      /\ t.pending \in pending_messages)
              => /\ get_pending_message_id(t.pending) \notin job'.processing_messages
                 /\ \A u \in TasksOf(job.run) \ Finished(job.run) : u \in job'.tasks
                 /\ t.pending \notin pending_messages'
                 /\ \/ [t.pending EXCEPT !.retries = @ + 1] \in pending_messages'
                    \/ /\ t.pending.retries >= MaxRetries
                       /\ \E r \in rejected_messages' :
                             r.item_hash = t.pending.item_hash]_vars

\* process_pending_messages returns in this step.
Returning == job.pc # "idle" /\ job'.pc = "idle" /\ job'.outcome = "returned"

\* C38: process_pending_messages returns only when the pending collection is
\* empty, and every task it created has been collected before it returns.
ReturnsWhenDone ==
    [][Returning => /\ pending_messages = {}
                    /\ TasksOf(job.run) = {}]_vars

\* The tasks that are inside `async with sem:` for the semaphore sem.
Inside(sem) == {t \in job.tasks : t.state = "running" /\ t.sem = sem}

\* Every semaphore is short of exactly the permits of the tasks inside
\* incoming(): with no such task, it is back at its configured size.
SemaphoresBalanced ==
    \A sem \in DOMAIN job.semaphores :
        job.semaphores[sem]
            = SemValue(sem.message_type) - Cardinality(Inside(sem))

\* A task of the call r for the message item_hash waits for its semaphore.
WaitingForPermit(item_hash, r) ==
    \E t \in job.tasks :
        t.pending.item_hash = item_hash /\ t.run = r /\ t.state = "created"

\* C37: every permit a task acquires is given back when its handler step
\* ends, by a return or by an exception, so that a semaphore is at its
\* configured size whenever no task is inside incoming(), and no task waits
\* for a permit forever.
PermitsGivenBack ==
    /\ []SemaphoresBalanced
    /\ \A item_hash \in PermitHashes, r \in 1..MaxRuns :
          WaitingForPermit(item_hash, r) ~> ~WaitingForPermit(item_hash, r)

\* C37 witness: the post b1 waits for the semaphore of the posts while m1
\* holds its only permit.
PostWaitsForPermit ==
    \E t, u \in TasksOf(job.run) :
        /\ t.pending.item_hash = "m1" /\ t.state = "running"
        /\ u.pending.item_hash = "b1" /\ u.state = "created"
        /\ job.semaphores[u.sem] = 0

\* p comes strictly before q in the order (retries, message.time).
StrictlyBefore(p, q) ==
    p.retries < q.retries \/ (p.retries = q.retries /\ p.time < q.time)

\* The tasks process_pending_messages creates in this step.
NewTasks == {t \in job'.tasks \ job.tasks : t.state = "created"}

\* C34: within one scan the tasks are created in the order (retries, time):
\* when the task of an entry is created, no entry the scan has yet to yield
\* comes strictly before it, so no entry with more retries is started before
\* an entry of the same scan with fewer retries that is not in flight.
ScanOrder ==
    [][\A t \in NewTasks :
          \A i \in 1..Len(job'.cursor) :
              ~StrictlyBefore(job'.cursor[i], t.pending)]_vars

\* C34 witness: a scan has started m2, which has no retry, and has yet to
\* yield m1, which has one.
FewerRetriesFirst ==
    /\ job.pc = "scan"
    /\ \E t \in TasksOf(job.run) :
          t.pending.item_hash = "m2" /\ t.pending.retries = 0
    /\ Len(job.cursor) = 1
    /\ job.cursor[1].item_hash = "m1" /\ job.cursor[1].retries = 1
    /\ get_pending_message_id(job.cursor[1]) \notin job.processing_messages

\* The entries the cleaning deletes in this step: those that leave the
\* collection at the synchronization point and are not the entry of a task
\* collected there.
SweptNow ==
    IF job.pc = "sync" /\ job'.pc = "count"
    THEN (pending_messages \ pending_messages')
             \ {t.pending : t \in Finished(job.run)}
    ELSE {}

\* C32: the cleaning deletes entries only when the pending collection holds
\* more than the high-water mark, and an entry it deletes has a lower source
\* height than an entry of the same item_hash, sender and chain that stays:
\* the entry with the highest source height is never deleted.
SweepKeepsHighest ==
    [][\A p \in SweptNow :
          /\ Cardinality(ApplyResults(DB, Finished(job.run)).pending_messages)
                 > HighWaterMark
          /\ \E q \in pending_messages' :
                /\ q.item_hash = p.item_hash
                /\ q.sender = p.sender
                /\ SourceChain(q.tx_hash) = SourceChain(p.tx_hash)
                /\ SourceHeight(q.tx_hash) > SourceHeight(p.tx_hash)]_vars
====
